---------------------------- MODULE Spec2Model ----------------------------
(***************************************************************************)
(* A model of the n8n-nodes-chiliz package: the Chiliz action node         *)
(* (Chiliz.execute and the action functions it dispatches to, with the     *)
(* transport functions they call) and the polling trigger                  *)
(* (ChilizTrigger.poll and its poll* helpers).                             *)
(*                                                                         *)
(* Strings of the program are TLA+ strings; the helpers below compute on   *)
(* them character by character, as the TypeScript does.                    *)
(***************************************************************************)
EXTENDS Integers, Sequences, FiniteSets, TLC

(***************************************************************************)
(* Bounds of the model.                                                    *)
(***************************************************************************)
\* input items of one execute invocation: 1..MaxItems
MaxItems == 2
\* elements of a list an upstream API answers with: 0..MaxList
MaxList == 1
\* execute invocations started in one behaviour of the concurrent specification
MaxRuns == 2
\* blocks mined in one behaviour: the head goes from FirstHead up to
\* FirstHead + MaxHead, or on a new chain from 0 up to MaxHead
MaxHead == 3
\* the head of the chain when the workflow is activated
FirstHead == 12
\* poll invocations of one behaviour
MaxPolls == 3

(***************************************************************************)
(* String helpers (String.prototype methods the code uses).                *)
(***************************************************************************)
HexDigitsLower == {"0","1","2","3","4","5","6","7","8","9","a","b","c","d","e","f"}
HexDigitsUpper == {"A","B","C","D","E","F"}
\* the character class [a-fA-F0-9]
HexChars == HexDigitsLower \cup HexDigitsUpper

CharAt(s, i) == SubSeq(s, i, i)

startsWith(s, p) == Len(s) >= Len(p) /\ SubSeq(s, 1, Len(p)) = p

endsWith(s, p) == Len(s) >= Len(p) /\ SubSeq(s, Len(s) - Len(p) + 1, Len(s)) = p

\* s.slice(n) for 0 <= n
sliceFrom(s, n) == SubSeq(s, n + 1, Len(s))

LowerOf(c) ==
    CASE c = "A" -> "a" [] c = "B" -> "b" [] c = "C" -> "c"
      [] c = "D" -> "d" [] c = "E" -> "e" [] c = "F" -> "f"
      [] c = "X" -> "x" [] OTHER -> c

RECURSIVE toLowerCase(_)
toLowerCase(s) ==
    IF Len(s) = 0 THEN "" ELSE LowerOf(CharAt(s, 1)) \o toLowerCase(sliceFrom(s, 1))

RECURSIVE padStart(_, _, _)
padStart(s, n, c) == IF Len(s) >= n THEN s ELSE padStart(c \o s, n, c)

\* /^0x[a-fA-F0-9]{n}$/.test(s)
MatchesHex(s, n) ==
    /\ Len(s) = n + 2
    /\ SubSeq(s, 1, 2) = "0x"
    /\ \A i \in 3..(n + 2) : CharAt(s, i) \in HexChars

AddressHexLen == 40
TxHashHexLen == 64

(***************************************************************************)
(* utils/helpers.ts                                                        *)
(***************************************************************************)
strip0x(hex) == IF startsWith(hex, "0x") THEN sliceFrom(hex, 2) ELSE hex

add0x(hex) == IF startsWith(hex, "0x") THEN hex ELSE "0x" \o hex

padHex(hex, length) == "0x" \o padStart(strip0x(hex), length, "0")

\* a faulty isValidAddress for IsValidAddressExact to reject: it accepts
\* lowercase digits only
isValidAddressLowerOnly(address) ==
    /\ Len(address) = AddressHexLen + 2
    /\ SubSeq(address, 1, 2) = "0x"
    /\ \A i \in 3..Len(address) : CharAt(address, i) \in HexDigitsLower

isValidAddress(address) == MatchesHex(address, AddressHexLen)

isValidTransactionHash(hash) == MatchesHex(hash, TxHashHexLen)

\* normalizeAddress either throws or returns: Throws tells which, Value what.
normalizeAddressPrefixed(address) ==
    IF ~startsWith(address, "0x") THEN "0x" \o address ELSE address

normalizeAddressThrows(address) ==
    ~MatchesHex(normalizeAddressPrefixed(address), AddressHexLen)

\* a faulty normalizeAddress for NormalizeAddressIdempotent to reject: it
\* does not lowercase
normalizeAddressKeepingCase(address) == normalizeAddressPrefixed(address)

normalizeAddress(address) == toLowerCase(normalizeAddressPrefixed(address))

InvalidAddressMessage(address) == "Invalid address: " \o address

\* the pre-computed table inside getFunctionSelector
getFunctionSelectorTable ==
    [s \in {"transfer(address,uint256)", "balanceOf(address)", "totalSupply()",
            "name()", "symbol()", "decimals()", "approve(address,uint256)",
            "allowance(address,address)", "transferFrom(address,address,uint256)",
            "ownerOf(uint256)", "tokenURI(uint256)",
            "safeTransferFrom(address,address,uint256)"} |->
        CASE s = "transfer(address,uint256)" -> "0xa9059cbb"
          [] s = "balanceOf(address)" -> "0x70a08231"
          [] s = "totalSupply()" -> "0x18160ddd"
          [] s = "name()" -> "0x06fdde03"
          [] s = "symbol()" -> "0x95d89b41"
          [] s = "decimals()" -> "0x313ce567"
          [] s = "approve(address,uint256)" -> "0x095ea7b3"
          [] s = "allowance(address,address)" -> "0xdd62ed3e"
          [] s = "transferFrom(address,address,uint256)" -> "0x23b872dd"
          [] s = "ownerOf(uint256)" -> "0x6352211e"
          [] s = "tokenURI(uint256)" -> "0xc87b56dd"
          [] s = "safeTransferFrom(address,address,uint256)" -> "0x42842e0e"]

getFunctionSelector(signature) ==
    IF signature \in DOMAIN getFunctionSelectorTable
    THEN getFunctionSelectorTable[signature]
    ELSE "0x00000000"

\* FUNCTION_SELECTORS: full signatures and shorthand keys
FUNCTION_SELECTORS ==
    [k \in {"transfer(address,uint256)", "balanceOf(address)", "totalSupply()",
            "name()", "symbol()", "decimals()", "approve(address,uint256)",
            "allowance(address,address)", "transferFrom(address,address,uint256)",
            "ownerOf(uint256)", "tokenURI(uint256)",
            "safeTransferFrom(address,address,uint256)", "getApproved(uint256)",
            "name", "symbol", "decimals", "totalSupply", "balanceOf", "transfer",
            "approve", "allowance", "transferFrom", "ownerOf", "tokenURI",
            "safeTransferFrom", "getApproved"} |->
        CASE k \in {"transfer(address,uint256)", "transfer"} -> "0xa9059cbb"
          [] k \in {"balanceOf(address)", "balanceOf"} -> "0x70a08231"
          [] k \in {"totalSupply()", "totalSupply"} -> "0x18160ddd"
          [] k \in {"name()", "name"} -> "0x06fdde03"
          [] k \in {"symbol()", "symbol"} -> "0x95d89b41"
          [] k \in {"decimals()", "decimals"} -> "0x313ce567"
          [] k \in {"approve(address,uint256)", "approve"} -> "0x095ea7b3"
          [] k \in {"allowance(address,address)", "allowance"} -> "0xdd62ed3e"
          [] k \in {"transferFrom(address,address,uint256)", "transferFrom"} -> "0x23b872dd"
          [] k \in {"ownerOf(uint256)", "ownerOf"} -> "0x6352211e"
          [] k \in {"tokenURI(uint256)", "tokenURI"} -> "0xc87b56dd"
          [] k \in {"safeTransferFrom(address,address,uint256)", "safeTransferFrom"} -> "0x42842e0e"
          [] k \in {"getApproved(uint256)", "getApproved"} -> "0x081812fc"]

HexDigitOf(d) ==
    CASE d = 0 -> "0" [] d = 1 -> "1" [] d = 2 -> "2" [] d = 3 -> "3"
      [] d = 4 -> "4" [] d = 5 -> "5" [] d = 6 -> "6" [] d = 7 -> "7"
      [] d = 8 -> "8" [] d = 9 -> "9" [] d = 10 -> "a" [] d = 11 -> "b"
      [] d = 12 -> "c" [] d = 13 -> "d" [] d = 14 -> "e" [] d = 15 -> "f"

\* (n).toString(16) for a non-negative n
RECURSIVE toString16(_)
toString16(n) ==
    IF n < 16 THEN HexDigitOf(n) ELSE toString16(n \div 16) \o HexDigitOf(n % 16)

encodeAddress(address) == padHex(strip0x(address), 64)

\* a faulty encodeUint256 that does not pad, for CallDataWords to reject
encodeUint256Unpadded(value) == add0x(toString16(value))

encodeUint256(value) == padHex(toString16(value), 64)

\* params: a sequence of [type, value]; a value is a string (address) or a
\* number (uint256); a parameter of any other type adds nothing
RECURSIVE buildCallDataFrom(_, _)
buildCallDataFrom(data, params) ==
    IF Len(params) = 0 THEN data
    ELSE LET param == Head(params)
             next == IF param.type = "address"
                       THEN data \o strip0x(encodeAddress(param.value))
                     ELSE IF param.type = "uint256"
                       THEN data \o strip0x(encodeUint256(param.value))
                     ELSE data
         IN buildCallDataFrom(next, Tail(params))

buildCallData(functionSignature, params) ==
    buildCallDataFrom(getFunctionSelector(functionSignature), params)

(***************************************************************************)
(* Chiliz.node.ts: the node description (what the editor offers) and the   *)
(* dispatch of execute (what the switch statements accept).                *)
(***************************************************************************)
\* options of the 'resource' parameter
Resources ==
    {"fanToken", "account", "transaction", "smartContract", "poll", "reward",
     "nft", "network", "event", "utility"}

\* options of the 'operation' parameter shown for each resource
OperationOptions(resource) ==
    CASE resource = "fanToken" ->
           {"getFanTokenInfo", "listFanTokens", "getTokenPrice", "getTokenHolders",
            "getTokenVolume", "getTokenSupply", "getUserTokens", "getSupportedClubs"}
      [] resource = "account" ->
           {"getBalance", "getTokenBalances", "getTransactionHistory",
            "getTokenTransfers", "getAccountNonce"}
      [] resource = "transaction" ->
           {"getTransaction", "sendTransaction", "transferToken", "estimateGas",
            "getTransactionReceipt", "getPendingTransactions"}
      [] resource = "smartContract" ->
           {"readContract", "writeContract", "getContractEvents",
            "getFanTokenContract", "getContractInfo", "getContractSource"}
      [] resource = "poll" ->
           {"getActivePolls", "getPollDetails", "voteOnPoll", "getVoteResults",
            "getUserVotes", "getUpcomingPolls"}
      [] resource = "reward" ->
           {"getAvailableRewards", "getUserRewards", "claimReward",
            "getRewardHistory", "getRewardDetails", "checkRewardEligibility"}
      [] resource = "nft" ->
           {"getNFTCollection", "getUserNFTs", "getNFTMetadata", "transferNFT",
            "checkNFTOwnership", "getNFTApproval"}
      [] resource = "network" ->
           {"getNetworkStatus", "getGasPrice", "getBlock", "getLatestBlock",
            "getNetworkInfo", "getProtocolVersion", "getFeeHistory"}
      [] resource = "event" ->
           {"getLogs", "filterEvents", "getContractEvents", "decodeTransferEvent",
            "createEventFilter", "getFilterChanges"}
      [] resource = "utility" ->
           {"convertUnits", "getAPIHealth", "getSupportedClubs", "validateAddress",
            "getNetworkInfo", "encodeFunctionCall"}
      [] OTHER -> {}

\* the import alias execute calls into for each resource
ActionModule(resource) ==
    CASE resource = "fanToken" -> "fanTokensActions"
      [] resource = "account" -> "accountsActions"
      [] resource = "transaction" -> "transactionsActions"
      [] resource = "smartContract" -> "smartContractsActions"
      [] resource = "poll" -> "pollsActions"
      [] resource = "reward" -> "rewardsActions"
      [] resource = "nft" -> "nftsActions"
      [] resource = "network" -> "networkActions"
      [] resource = "event" -> "eventsActions"
      [] resource = "utility" -> "utilityActions"

\* the resource's name in the message of the default branch
ResourceLabel(resource) ==
    CASE resource = "fanToken" -> "Fan Token"
      [] resource = "account" -> "Account"
      [] resource = "transaction" -> "Transaction"
      [] resource = "smartContract" -> "Smart Contract"
      [] resource = "poll" -> "Poll"
      [] resource = "reward" -> "Reward"
      [] resource = "nft" -> "NFT"
      [] resource = "network" -> "Network"
      [] resource = "event" -> "Event"
      [] resource = "utility" -> "Utility"

\* the case labels of the switch of each resource, each with the action
\* function its branch calls
SwitchCases(resource) ==
    CASE resource = "reward" ->
           [o \in {"getAvailableRewards", "claimReward", "getRewardHistory",
                   "getRewardDetails", "checkEligibility"} |->
               IF o = "checkEligibility" THEN "checkRewardEligibility" ELSE o]
      [] resource = "nft" ->
           [o \in {"getCollection", "getUserNFTs", "getNFTMetadata",
                   "checkOwnership", "transferNFT", "getApproval"} |->
               CASE o = "getCollection" -> "getNFTCollection"
                 [] o = "checkOwnership" -> "checkNFTOwnership"
                 [] o = "getApproval" -> "getNFTApproval"
                 [] OTHER -> o]
      [] resource = "fanToken" ->
           [o \in {"getFanTokenInfo", "listFanTokens", "getTokenPrice",
                   "getTokenHolders", "getTokenVolume", "getTokenSupply",
                   "getUserTokens", "getSupportedClubs"} |-> o]
      [] resource = "account" ->
           [o \in {"getBalance", "getTokenBalances", "getTransactionHistory",
                   "getTokenTransfers", "getAccountNonce"} |-> o]
      [] resource = "transaction" ->
           [o \in {"getTransaction", "sendTransaction", "transferToken",
                   "estimateGas", "getTransactionReceipt",
                   "getPendingTransactions"} |-> o]
      [] resource = "smartContract" ->
           [o \in {"readContract", "writeContract", "getContractEvents",
                   "getFanTokenContract", "getContractInfo",
                   "getContractSource"} |-> o]
      [] resource = "poll" ->
           [o \in {"getActivePolls", "getPollDetails", "voteOnPoll",
                   "getVoteResults", "getUserVotes", "getUpcomingPolls"} |-> o]
      [] resource = "network" ->
           [o \in {"getNetworkStatus", "getBlock", "getLatestBlock", "getGasPrice",
                   "getNetworkInfo", "getProtocolVersion", "getFeeHistory"} |-> o]
      [] resource = "event" ->
           [o \in {"getLogs", "filterEvents", "getContractEvents",
                   "decodeTransferEvent", "createEventFilter",
                   "getFilterChanges"} |-> o]
      [] resource = "utility" ->
           [o \in {"convertUnits", "getAPIHealth", "getSupportedClubs",
                   "validateAddress", "getNetworkInfo",
                   "encodeFunctionCall"} |-> o]

UnknownOperationMessage(resource, operation) ==
    "Unknown " \o ResourceLabel(resource) \o " operation: " \o operation

\* the if/else-if chain over the resource and the switch over the operation:
\* either the action function to call or the message of the error thrown
Dispatch(resource, operation) ==
    IF resource \notin Resources
    THEN [found |-> FALSE, module |-> "", fn |-> "",
          message |-> "Unknown resource: " \o resource]
    ELSE IF operation \in DOMAIN SwitchCases(resource)
    THEN [found |-> TRUE, module |-> ActionModule(resource),
          fn |-> SwitchCases(resource)[operation], message |-> ""]
    ELSE [found |-> FALSE, module |-> "", fn |-> "",
          message |-> UnknownOperationMessage(resource, operation)]

(***************************************************************************)
(* The action functions as step lists.  A step is one statement of an      *)
(* action function that can end it: a credential test, a validation, or    *)
(* an awaited transport call.  Its fail field says what the enclosing      *)
(* try/catch (if any) does with an exception raised at that step.          *)
(***************************************************************************)
\* no try/catch around the step: the exception leaves the action function
Throw == [mode |-> "throw", prefix |-> "", to |-> 0]
\* catch (error) { throw new NodeOperationError(node, prefix + error.message) }
Wrap(prefix) == [mode |-> "wrap", prefix |-> prefix, to |-> 0]
\* catch (error) { return [{ json: { ...placeholder } }] }
Degrade == [mode |-> "degrade", prefix |-> "", to |-> 0]
\* an inner try { } catch { } that swallows: execution goes on at step `to`
Resume(to) == [mode |-> "resume", prefix |-> "", to |-> to]
\* an early `return` of a regular item (no exception involved)
Return == [mode |-> "return", prefix |-> "", to |-> 0]

NoCall == [kind |-> "none", sig |-> "", args |-> <<>>]
\* buildCallData('<sig>', [...]) with a signature written in the code
FixedCall(sig, args) == [kind |-> "fixed", sig |-> sig, args |-> args]
\* buildCallData(functionName, functionParams) from the item's parameters
UserCall == [kind |-> "user", sig |-> "", args |-> <<>>]
\* one element of the parameter list given to buildCallData
Arg(type, param, norm) == [type |-> type, param |-> param, norm |-> norm]

\* the result of the call is not tested for null
NotTested == [mode |-> "none", prefix |-> "", to |-> 0]
\* throw new NodeOperationError(node, text), outside any try
ThrowText(text) == [mode |-> "throw", prefix |-> text, to |-> 0]

Step(op, param, norm, via, method, call, text, fail) ==
    [op |-> op, param |-> param, norm |-> norm, via |-> via, method |-> method,
     call |-> call, text |-> text, fail |-> fail, nil |-> NotTested]

\* if (!result) <action> after the awaited call of the step
OnNull(step, action) == [step EXCEPT !.nil = action]

\* a faulty NeedKey for NoTransactionBroadcast to reject: instead of testing
\* the key, the step broadcasts a signed transaction
NeedKeyThenBroadcast(cred, text) ==
    Step("req", "", FALSE, "rpc", "eth_sendRawTransaction", NoCall, text, Throw)

\* if (!credentials.<cred>) throw new NodeOperationError(node, text)
NeedKey(cred, text) == Step("key", cred, FALSE, "", "", NoCall, text, Throw)
\* normalizeAddress(<param>)
Addr(param, fail) == Step("addr", param, TRUE, "", "", NoCall, "", fail)
\* <param> ? normalizeAddress(<param>) : undefined
AddrIf(param, fail) == Step("addrIf", param, TRUE, "", "", NoCall, "", fail)
\* if (!/^0x[a-fA-F0-9]{64}$/.test(<param>)) throw ...
Hash(param, text) == Step("hash", param, FALSE, "", "", NoCall, text, Throw)
\* if (!/^0x[a-fA-F0-9]{40}$/.test(<param>)) return ...
Format(param) == Step("format", param, FALSE, "", "", NoCall, "", Return)
\* a local computation on <param> that throws on a malformed value
Local(kind, param, fail) == Step(kind, param, FALSE, "", "", NoCall, "", fail)
\* jsonRpcRequest.call(this, method, [<param>, ...])
Rpc(method, param, norm, fail) ==
    Step("req", param, norm, "rpc", method, NoCall, "", fail)
\* jsonRpcRequest.call(this, 'eth_call', [{ to: <param>, data: <call> }, 'latest'])
EthCall(param, call, fail) ==
    Step("req", param, TRUE, "rpc", "eth_call", call, "", fail)
\* chilizScanRequest.call(this, module, action, { ...: <param> })
Scan(action, param, norm, fail) ==
    Step("req", param, norm, "scan", action, NoCall, "", fail)
\* sociosApiRequest.call(this, endpoint, verb, ...); <param> is a value the
\* endpoint or body carries
Socios(verb, endpoint, param, fail) ==
    Step("req", param, FALSE, "socios", verb, NoCall, endpoint, fail)

\* what an action function returns when it runs to its end: one item, one
\* item per element of the list last received, a fixed number of items, or
\* the placeholder of an operation that would need signing
One == [kind |-> "item", n |-> 1]
PerElement == [kind |-> "list", n |-> 0]
Fixed(n) == [kind |-> "fixed", n |-> n]
Stub == [kind |-> "stub", n |-> 1]

Handler(steps, returns) == [steps |-> steps, returns |-> returns]

\* jsonRpcRequest with one method when <param> starts with 0x, another otherwise
RpcByPrefix(methodIfHex, methodElse, param, fail) ==
    Step("req", param, FALSE, "rpc", methodElse, NoCall, methodIfHex, fail)

\* actions/fanTokens/fanTokens.ts.  FAN_TOKENS holds only placeholder
\* addresses ('0x...'), so the balance loop of getUserTokens skips every entry.
fanTokensActions ==
    [getFanTokenInfo |-> Handler(
        <<Addr("tokenAddress", Throw),
          EthCall("tokenAddress", FixedCall("name()", <<>>), Throw),
          EthCall("tokenAddress", FixedCall("symbol()", <<>>), Throw),
          EthCall("tokenAddress", FixedCall("decimals()", <<>>), Throw),
          EthCall("tokenAddress", FixedCall("totalSupply()", <<>>), Throw)>>, One),
     listFanTokens |-> Handler(<<>>, Fixed(10)),
     getTokenPrice |-> Handler(<<>>, One),
     getTokenHolders |-> Handler(
        <<Scan("tokenholderlist", "tokenAddress", FALSE, Degrade)>>, PerElement),
     getTokenVolume |-> Handler(<<>>, One),
     getTokenSupply |-> Handler(
        <<Addr("tokenAddress", Throw),
          EthCall("tokenAddress", FixedCall("totalSupply()", <<>>), Throw),
          EthCall("tokenAddress", FixedCall("decimals()", <<>>), Throw)>>, One),
     getUserTokens |-> Handler(<<Addr("userAddress", Throw)>>, One),
     getSupportedClubs |-> Handler(<<>>, Fixed(14))]

\* actions/accounts/accounts.ts.  The token loop of getTokenBalances skips
\* every entry of FAN_TOKENS for the same reason.
accountsActions ==
    [getBalance |-> Handler(
        <<Addr("address", Throw),
          Rpc("eth_getBalance", "address", TRUE, Throw)>>, One),
     getTokenBalances |-> Handler(
        <<Addr("address", Throw),
          Rpc("eth_getBalance", "address", TRUE, Throw)>>, One),
     getTransactionHistory |-> Handler(
        <<Addr("address", Throw),
          Scan("txlist", "address", TRUE, Degrade)>>, PerElement),
     getTokenTransfers |-> Handler(
        <<Addr("address", Throw),
          AddrIf("tokenAddress", Degrade),
          Scan("tokentx", "address", TRUE, Degrade)>>, PerElement),
     getAccountNonce |-> Handler(
        <<Addr("address", Throw),
          Rpc("eth_getTransactionCount", "address", TRUE, Throw)>>, One)]

\* actions/transactions/transactions.ts
transactionsActions ==
    [getTransaction |-> Handler(
        <<Hash("transactionHash", "Invalid transaction hash format"),
          OnNull(Rpc("eth_getTransactionByHash", "transactionHash", FALSE, Throw),
                 Return),
          Rpc("eth_getTransactionReceipt", "transactionHash", FALSE, Throw)>>, One),
     sendTransaction |-> Handler(
        <<NeedKey("privateKey",
                  "Private key is required for sending transactions. Please configure it in credentials."),
          Addr("toAddress", Throw)>>, Stub),
     transferToken |-> Handler(
        <<NeedKey("privateKey",
                  "Private key is required for token transfers. Please configure it in credentials."),
          Addr("tokenAddress", Throw),
          Addr("toAddress", Throw)>>, Stub),
     estimateGas |-> Handler(
        <<Addr("fromAddress", Throw),
          Addr("toAddress", Throw),
          Rpc("eth_estimateGas", "toAddress", TRUE, Wrap("Gas estimation failed: ")),
          Rpc("eth_gasPrice", "", FALSE, Wrap("Gas estimation failed: "))>>, One),
     getTransactionReceipt |-> Handler(
        <<Hash("transactionHash", "Invalid transaction hash format"),
          OnNull(Rpc("eth_getTransactionReceipt", "transactionHash", FALSE, Throw),
                 Return)>>, One),
     getPendingTransactions |-> Handler(
        <<OnNull(Rpc("eth_getBlockByNumber", "", FALSE, Degrade), Return)>>, One)]

\* one item per element of the list received, or one message item when the
\* answer is not a list
PerElementOrMessage == [kind |-> "listOrMessage", n |-> 0]

\* actions/smartContracts/smartContracts.ts
smartContractsActions ==
    [readContract |-> Handler(
        <<Addr("contractAddress", Throw),
          EthCall("contractAddress", UserCall, Wrap("Contract call failed: "))>>, One),
     writeContract |-> Handler(
        <<NeedKey("privateKey",
                  "Private key is required for write operations. Please configure it in credentials."),
          Addr("contractAddress", Throw)>>, Stub),
     getContractEvents |-> Handler(
        <<Addr("contractAddress", Throw),
          Rpc("eth_getLogs", "contractAddress", TRUE,
              Wrap("Failed to get contract events: "))>>, PerElement),
     getFanTokenContract |-> Handler(<<>>, One),
     getContractInfo |-> Handler(
        <<Addr("contractAddress", Throw),
          OnNull(Rpc("eth_getCode", "contractAddress", TRUE,
                     Wrap("Failed to get contract info: ")), Return),
          Scan("getabi", "contractAddress", TRUE, Resume(4))>>, One),
     getContractSource |-> Handler(
        <<Addr("contractAddress", Throw),
          Scan("getsourcecode", "contractAddress", TRUE, Degrade)>>, One)]

\* actions/polls/polls.ts
pollsActions ==
    [getActivePolls |-> Handler(
        <<Socios("GET", "/polls/active", "", Degrade)>>, PerElementOrMessage),
     getPollDetails |-> Handler(
        <<Socios("GET", "/polls/{pollId}", "", Degrade)>>, One),
     voteOnPoll |-> Handler(
        <<NeedKey("sociosApiKey",
                  "Socios API key is required for voting. Please configure it in credentials."),
          Socios("POST", "/polls/{pollId}/vote", "", Degrade)>>, One),
     getVoteResults |-> Handler(
        <<Socios("GET", "/polls/{pollId}/results", "", Degrade)>>, One),
     getUserVotes |-> Handler(
        <<NeedKey("sociosApiKey",
                  "Socios API key is required to get user votes. Please configure it in credentials."),
          Socios("GET", "/users/votes", "userAddress", Degrade)>>,
        PerElementOrMessage),
     getUpcomingPolls |-> Handler(
        <<Socios("GET", "/polls/upcoming", "", Degrade)>>, PerElementOrMessage)]

\* actions/rewards/rewards.ts
rewardsActions ==
    [getAvailableRewards |-> Handler(
        <<Socios("GET", "/rewards/available", "", Degrade)>>, PerElementOrMessage),
     getUserRewards |-> Handler(
        <<NeedKey("sociosApiKey",
                  "Socios API key is required to get user rewards. Please configure it in credentials."),
          Socios("GET", "/users/rewards", "userAddress", Degrade)>>,
        PerElementOrMessage),
     claimReward |-> Handler(
        <<NeedKey("sociosApiKey",
                  "Socios API key is required to claim rewards. Please configure it in credentials."),
          Socios("POST", "/rewards/{rewardId}/claim", "", Degrade)>>, One),
     getRewardHistory |-> Handler(
        <<NeedKey("sociosApiKey",
                  "Socios API key is required to get reward history. Please configure it in credentials."),
          Socios("GET", "/users/rewards/history", "userAddress", Degrade)>>,
        PerElementOrMessage),
     getRewardDetails |-> Handler(
        <<Socios("GET", "/rewards/{rewardId}", "", Degrade)>>, One),
     checkRewardEligibility |-> Handler(
        <<NeedKey("sociosApiKey",
                  "Socios API key is required to check eligibility. Please configure it in credentials."),
          Socios("GET", "/rewards/{rewardId}/eligibility", "userAddress", Degrade)>>,
        One)]

\* actions/nfts/nfts.ts
nftsActions ==
    [getNFTCollection |-> Handler(
        <<Addr("collectionAddress", Throw),
          EthCall("collectionAddress", FixedCall("name()", <<>>), Throw),
          EthCall("collectionAddress", FixedCall("symbol()", <<>>), Throw),
          EthCall("collectionAddress", FixedCall("totalSupply()", <<>>), Resume(5))>>,
        One),
     getUserNFTs |-> Handler(
        <<Addr("userAddress", Throw),
          AddrIf("collectionAddress", Degrade),
          Scan("tokennfttx", "userAddress", TRUE, Degrade)>>, One),
     getNFTMetadata |-> Handler(
        <<Addr("contractAddress", Throw),
          EthCall("contractAddress",
                  FixedCall("tokenURI(uint256)", <<Arg("uint256", "tokenId", FALSE)>>),
                  Wrap("Failed to get NFT metadata: ")),
          EthCall("contractAddress",
                  FixedCall("ownerOf(uint256)", <<Arg("uint256", "tokenId", FALSE)>>),
                  Resume(4))>>, One),
     transferNFT |-> Handler(
        <<NeedKey("privateKey",
                  "Private key is required for NFT transfers. Please configure it in credentials."),
          Addr("contractAddress", Throw),
          Addr("toAddress", Throw)>>, Stub),
     checkNFTOwnership |-> Handler(
        <<Addr("contractAddress", Throw),
          EthCall("contractAddress",
                  FixedCall("ownerOf(uint256)", <<Arg("uint256", "tokenId", FALSE)>>),
                  Degrade),
          AddrIf("expectedOwner", Degrade)>>, One),
     getNFTApproval |-> Handler(
        <<Addr("contractAddress", Throw),
          EthCall("contractAddress",
                  FixedCall("getApproved(uint256)", <<Arg("uint256", "tokenId", FALSE)>>),
                  Wrap("Failed to get NFT approval: "))>>, One)]

\* actions/network/network.ts
networkActions ==
    [getNetworkStatus |-> Handler(
        <<Rpc("eth_chainId", "", FALSE, Throw),
          Rpc("eth_blockNumber", "", FALSE, Throw),
          Rpc("eth_gasPrice", "", FALSE, Throw),
          Rpc("net_peerCount", "", FALSE, Resume(5)),
          Rpc("eth_syncing", "", FALSE, Resume(6))>>, One),
     getGasPrice |-> Handler(<<Rpc("eth_gasPrice", "", FALSE, Throw)>>, One),
     getBlock |-> Handler(
        <<OnNull(RpcByPrefix("eth_getBlockByHash", "eth_getBlockByNumber",
                             "blockIdentifier", Throw), Return)>>, One),
     getLatestBlock |-> Handler(
        <<OnNull(Rpc("eth_getBlockByNumber", "", FALSE, Throw),
                 ThrowText("Failed to get latest block"))>>, One),
     getNetworkInfo |-> Handler(<<Rpc("eth_chainId", "", FALSE, Throw)>>, One),
     getProtocolVersion |-> Handler(
        <<Rpc("eth_protocolVersion", "", FALSE, Degrade),
          Rpc("web3_clientVersion", "", FALSE, Resume(3))>>, One),
     getFeeHistory |-> Handler(<<Rpc("eth_feeHistory", "", FALSE, Degrade)>>, One)]

\* actions/events/events.ts
eventsActions ==
    [getLogs |-> Handler(
        <<AddrIf("address", Throw),
          Rpc("eth_getLogs", "address", TRUE, Wrap("Failed to get logs: "))>>,
        PerElement),
     filterEvents |-> Handler(
        <<AddrIf("address", Throw),
          Rpc("eth_getLogs", "address", TRUE, Wrap("Failed to filter events: "))>>,
        PerElement),
     getContractEvents |-> Handler(
        <<Addr("contractAddress", Throw),
          Rpc("eth_getLogs", "contractAddress", TRUE,
              Wrap("Failed to get contract events: "))>>, One),
     decodeTransferEvent |-> Handler(<<>>, One),
     createEventFilter |-> Handler(
        <<AddrIf("address", Throw),
          Rpc("eth_newFilter", "address", TRUE, Wrap("Failed to create filter: "))>>,
        One),
     getFilterChanges |-> Handler(
        <<Rpc("eth_getFilterChanges", "", FALSE, Degrade)>>, One)]

\* actions/utility/utility.ts
utilityActions ==
    [convertUnits |-> Handler(
        <<Local("bigint", "amount", Wrap("Failed to convert units: "))>>, One),
     getAPIHealth |-> Handler(
        <<Rpc("eth_chainId", "", FALSE, Resume(3)),
          Rpc("eth_blockNumber", "", FALSE, Resume(3)),
          Rpc("net_peerCount", "", FALSE, Resume(4)),
          Rpc("eth_gasPrice", "", FALSE, Resume(5))>>, One),
     getSupportedClubs |-> Handler(<<>>, One),
     validateAddress |-> Handler(
        <<Format("address"),
          Rpc("eth_getCode", "address", FALSE, Degrade)>>, One),
     getNetworkInfo |-> Handler(<<Rpc("eth_chainId", "", FALSE, Throw)>>, One),
     encodeFunctionCall |-> Handler(
        <<Local("signature", "functionSignature",
                Wrap("Failed to encode function call: "))>>, One)]

\* the imported action modules by alias
ActionModules(alias) ==
    CASE alias = "fanTokensActions" -> fanTokensActions
      [] alias = "accountsActions" -> accountsActions
      [] alias = "transactionsActions" -> transactionsActions
      [] alias = "smartContractsActions" -> smartContractsActions
      [] alias = "pollsActions" -> pollsActions
      [] alias = "rewardsActions" -> rewardsActions
      [] alias = "nftsActions" -> nftsActions
      [] alias = "networkActions" -> networkActions
      [] alias = "eventsActions" -> eventsActions
      [] alias = "utilityActions" -> utilityActions

(***************************************************************************)
(* Item parameters: the values getNodeParameter can hand to an action      *)
(* function.                                                               *)
(***************************************************************************)
\* a well-formed address with upper-case digits, the same without its prefix,
\* and one with a non-hexadecimal last character
AddrMixed == "0x742d35Cc6634C0532925a3b844Bc454e4438f44e"
AddrNoPrefix == "742d35Cc6634C0532925a3b844Bc454e4438f44e"
AddrNonHex == "0x742d35Cc6634C0532925a3b844Bc454e4438f44g"
HashGood == "0x1234567890abcdef1234567890abcdef1234567890abcdef1234567890abcdef"
HashShort == "0x1234"

AddressParams ==
    {"tokenAddress", "userAddress", "address", "toAddress", "fromAddress",
     "contractAddress", "collectionAddress", "expectedOwner"}
HashParams == {"transactionHash"}

AddressInputs == {AddrMixed, AddrNoPrefix, AddrNonHex}
HashInputs == {HashGood, HashShort}
TokenIdInputs == {1, 255}
FunctionNameInputs == {"balanceOf", "0x70a08231", "balanceOf(address)"}
FunctionParamsInputs == {<<>>, <<[type |-> "address", value |-> AddrMixed]>>}
AmountInputs == {"1", "1.5", "abc"}
SignatureInputs == {"totalSupply()", "totalSupply"}
BlockIdentifierInputs == {"latest", "12", HashGood}

\* the parameters an action function reads that can change what it does
RECURSIVE ArgParams(_)
ArgParams(args) ==
    IF Len(args) = 0 THEN {} ELSE {Head(args).param} \cup ArgParams(Tail(args))

StepParams(s) ==
    (IF s.op # "key" /\ s.param # "" THEN {s.param} ELSE {})
      \cup ArgParams(s.call.args)
      \cup (IF s.call.kind = "user" THEN {"functionName", "functionParams"} ELSE {})

HandlerParams(h) == UNION {StepParams(h.steps[k]) : k \in 1..Len(h.steps)}

\* a parameter is optional in an action function when the function tests it
\* for emptiness before use
OptionalIn(h, p) ==
    \E k \in 1..Len(h.steps) :
        /\ h.steps[k].param = p
        /\ \/ h.steps[k].op = "addrIf"
           \/ h.steps[k].via = "socios"

ParamDomain(h, p) ==
    CASE p = "transactionHash" -> HashInputs
      [] p = "tokenId" -> TokenIdInputs
      [] p = "functionName" -> FunctionNameInputs
      [] p = "functionParams" -> FunctionParamsInputs
      [] p = "amount" -> AmountInputs
      [] p = "functionSignature" -> SignatureInputs
      [] p = "blockIdentifier" -> BlockIdentifierInputs
      [] OTHER -> IF OptionalIn(h, p) THEN AddressInputs \cup {""} ELSE AddressInputs

\* all assignments of values to the parameters ps of an action function
RECURSIVE ParamAssignments(_, _)
ParamAssignments(h, ps) ==
    IF ps = {} THEN {<<>>}
    ELSE LET p == CHOOSE q \in ps : TRUE
         IN {f @@ (p :> v) : f \in ParamAssignments(h, ps \ {p}),
                             v \in ParamDomain(h, p)}

ItemParams(h) == ParamAssignments(h, HandlerParams(h))

\* the value is not what its parameter's format asks for
Malformed(p, value) ==
    CASE p \in AddressParams -> value # "" /\ normalizeAddressThrows(value)
      [] p \in HashParams -> ~isValidTransactionHash(value)
      [] OTHER -> FALSE

(***************************************************************************)
(* transport/client.ts: what the transport functions do with an answer.    *)
(* An answer is "ok", "null" (a null result), "error" (an error object of  *)
(* the JSON-RPC node, a status '0' of ChilizScan) or "http" (the HTTP      *)
(* request itself failed).                                                 *)
(***************************************************************************)
RpcErrorMessage == "execution reverted"
ScanErrorMessage == "NOTOK"
HttpErrorMessage == "connect ECONNREFUSED"
SociosKeyMessage == "Socios API key required"

Returned == [threw |-> FALSE, message |-> ""]
Thrown(message) == [threw |-> TRUE, message |-> message]

jsonRpcRequest(answer) ==
    CASE answer = "http" -> Thrown(HttpErrorMessage)
      [] answer = "error" -> Thrown(RpcErrorMessage)
      [] OTHER -> Returned

chilizScanRequest(answer) ==
    CASE answer = "http" -> Thrown(HttpErrorMessage)
      [] answer = "error" -> Thrown(ScanErrorMessage)
      [] OTHER -> Returned

\* a faulty test that lets every credential through, for
\* SociosRequestsAuthorized to reject
sociosApiRequestNeverRefuses(credentials) == FALSE

\* sociosApiRequest tests the key before it sends anything
sociosApiRequestRefuses(credentials) == ~credentials.sociosApiKey

sociosApiRequest(answer) ==
    IF answer = "http" THEN Thrown(HttpErrorMessage) ELSE Returned

Transport(via, answer) ==
    CASE via = "rpc" -> jsonRpcRequest(answer)
      [] via = "scan" -> chilizScanRequest(answer)
      [] via = "socios" -> sociosApiRequest(answer)

\* the answers the other side can give to the request of a step
Answers(s) ==
    CASE s.via = "rpc" ->
           {"ok", "error", "http"} \cup (IF s.nil.mode # "none" THEN {"null"} ELSE {})
      [] s.via = "scan" -> {"ok", "error", "http"}
      [] s.via = "socios" -> {"ok", "http"}

(***************************************************************************)
(* One invocation of Chiliz.execute.                                       *)
(***************************************************************************)
NoRequest ==
    [via |-> "", method |-> "", endpoint |-> "", arg |-> "", data |-> "",
     auth |-> FALSE]

IdleRun ==
    [pc |-> "idle", resource |-> "", operation |-> "", continueOnFail |-> FALSE,
     credentials |-> [privateKey |-> "", sociosApiKey |-> FALSE],
     items |-> 0, i |-> 0, step |-> 1, params |-> <<>>, request |-> NoRequest,
     inFlight |-> 0, sent |-> 0, failure |-> "", caught |-> "", size |-> 0,
     returnData |-> <<>>, thrown |-> "", done |-> <<>>]

\* an element of returnData; `from` remembers the item that produced it
OutputItem(kind, i) ==
    [kind |-> kind, error |-> "", paired |-> FALSE, pairedItem |-> 0, from |-> i]

\* { json: { error: message }, pairedItem: { item: i } }
ErrorItem(message, i) ==
    [kind |-> "error", error |-> message, paired |-> TRUE, pairedItem |-> i,
     from |-> i]

Copies(n, item) == [k \in 1..n |-> item]

ItemMalformed(e) == \E p \in DOMAIN e.params : Malformed(p, e.params[p])

\* what the run remembers of a finished item: the requests it sent, the
\* message of the last failure of a transport function (if any) with the kind
\* of try/catch it met, and how the item ended
DoneRecord(e, outcome, message) ==
    [item |-> e.i, sent |-> e.sent, malformed |-> ItemMalformed(e),
     failure |-> e.failure, caught |-> e.caught, outcome |-> outcome,
     message |-> message]

\* a faulty FinishItem for SequentialItems to reject: the outputs of an item
\* are put in front of those of the items before it
FinishItemPrepending(e, outcome, message, outputs) ==
    [e EXCEPT !.returnData = outputs \o @,
              !.done = Append(@, DoneRecord(e, outcome, message)),
              !.i = @ + 1, !.step = 1, !.pc = "loop", !.params = <<>>,
              !.sent = 0, !.failure = "", !.caught = "", !.size = 0]

\* returnData.push(...result) and the next turn of the loop
FinishItem(e, outcome, message, outputs) ==
    [e EXCEPT !.returnData = @ \o outputs,
              !.done = Append(@, DoneRecord(e, outcome, message)),
              !.i = @ + 1, !.step = 1, !.pc = "loop", !.params = <<>>,
              !.sent = 0, !.failure = "", !.caught = "", !.size = 0]

\* a faulty catch block for ContinueOnFailSemantics to reject: it rethrows
\* whatever continueOnFail() says
CatchWithoutContinue(e, message) ==
    [e EXCEPT !.pc = "threw", !.thrown = message,
              !.done = Append(@, DoneRecord(e, "threw", message))]

\* the catch block of the item loop
CatchInExecute(e, message) ==
    IF e.continueOnFail
    THEN FinishItem(e, "error", message, <<ErrorItem(message, e.i)>>)
    ELSE [e EXCEPT !.pc = "threw", !.thrown = message,
                   !.done = Append(@, DoneRecord(e, "threw", message))]

\* a faulty Raise for UpstreamFailureByCatch to reject: every exception is
\* swallowed into a placeholder item, whatever the try/catch around the step
RaiseSwallowing(e, message, fail) ==
    FinishItem(e, "degraded", "", <<OutputItem("degraded", e.i)>>)

\* an exception with this message is raised at a step whose try/catch is `fail`
Raise(e, message, fail) ==
    CASE fail.mode = "throw" -> CatchInExecute(e, message)
      [] fail.mode = "wrap" -> CatchInExecute(e, fail.prefix \o message)
      [] fail.mode = "degrade" ->
           FinishItem(e, "degraded", "", <<OutputItem("degraded", e.i)>>)
      [] fail.mode = "resume" -> [e EXCEPT !.step = fail.to]
      [] fail.mode = "return" ->
           FinishItem(e, "returned", "", <<OutputItem("item", e.i)>>)

\* the action function runs to its last statement
Complete(e, h) ==
    LET r == h.returns
        outputs ==
            CASE r.kind = "item" -> <<OutputItem("item", e.i)>>
              [] r.kind = "stub" -> <<OutputItem("placeholder", e.i)>>
              [] r.kind = "fixed" -> Copies(r.n, OutputItem("item", e.i))
              [] r.kind = "list" -> Copies(e.size, OutputItem("item", e.i))
              [] r.kind = "listOrMessage" ->
                   IF e.size < 0 THEN <<OutputItem("message", e.i)>>
                   ELSE Copies(e.size, OutputItem("item", e.i))
    IN FinishItem(e, "returned", "", outputs)

\* local computations of utility.ts that throw on a malformed parameter
DecDigits == {"0", "1", "2", "3", "4", "5", "6", "7", "8", "9"}
Letters ==
    {CharAt("abcdefghijklmnopqrstuvwxyzABCDEFGHIJKLMNOPQRSTUVWXYZ", k) : k \in 1..52}

\* BigInt(s) throws a SyntaxError, for s without blanks or radix prefix: it
\* accepts the empty string and digits after an optional sign
bigIntThrows(s) ==
    LET signed == Len(s) > 0 /\ CharAt(s, 1) \in {"-", "+"}
        digits == IF signed THEN sliceFrom(s, 1) ELSE s
    IN \/ signed /\ digits = ""
       \/ \E k \in 1..Len(digits) : CharAt(digits, k) \notin DecDigits

\* the parsing of `amount` in convertUnits: split('.') and BigInt of the parts
amountParseThrows(amount) ==
    LET dots == {k \in 1..Len(amount) : CharAt(amount, k) = "."}
    IN IF Cardinality(dots) = 1
       THEN LET d == CHOOSE k \in dots : TRUE
            IN \/ bigIntThrows(SubSeq(amount, 1, d - 1))
               \/ bigIntThrows(SubSeq(amount, d + 1, Len(amount)))
       ELSE bigIntThrows(amount)

\* /^([a-zA-Z_][a-zA-Z0-9_]*)\((.*)\)$/ in encodeFunctionCall
signatureMatches(s) ==
    /\ Len(s) >= 3
    /\ CharAt(s, Len(s)) = ")"
    /\ CharAt(s, 1) \in Letters \cup {"_"}
    /\ \E k \in 2..(Len(s) - 1) :
          /\ CharAt(s, k) = "("
          /\ \A j \in 2..(k - 1) : CharAt(s, j) \in Letters \cup DecDigits \cup {"_"}

LocalThrows(kind, value) ==
    CASE kind = "bigint" -> amountParseThrows(value)
      [] kind = "signature" -> ~signatureMatches(value)

LocalMessage(kind, value) ==
    CASE kind = "bigint" -> "Cannot convert " \o value \o " to a BigInt"
      [] kind = "signature" -> "Invalid function signature format"

\* the value of a parameter of the current item ("" when the function has none)
ParamValue(e, p) == IF p \in DOMAIN e.params THEN e.params[p] ELSE ""

CallArgs(e, args) ==
    [k \in 1..Len(args) |->
        [type |-> args[k].type,
         value |-> IF args[k].norm
                   THEN normalizeAddress(ParamValue(e, args[k].param))
                   ELSE ParamValue(e, args[k].param)]]

CallData(e, call) ==
    CASE call.kind = "fixed" -> buildCallData(call.sig, CallArgs(e, call.args))
      [] call.kind = "user" ->
           buildCallData(ParamValue(e, "functionName"),
                         ParamValue(e, "functionParams"))
      [] OTHER -> ""

\* the HTTP request the transport function sends for a step
RequestOf(e, s) ==
    LET value == ParamValue(e, s.param)
    IN [via |-> s.via,
        method |-> IF s.via = "rpc" /\ s.text # "" /\ startsWith(value, "0x")
                   THEN s.text ELSE s.method,
        endpoint |-> IF s.via = "socios" THEN s.text ELSE "",
        arg |-> IF s.param = "" \/ value = "" THEN ""
                ELSE IF s.norm THEN normalizeAddress(value) ELSE value,
        data |-> CallData(e, s.call),
        auth |-> s.via = "socios"]

\* the values of the privateKey credential: two keys, and "" for none
PrivateKeyA == "0x4c0883a69102937d6231471b5dbb6204fe5129617082792ae468d01a3f362318"
PrivateKeyB == "0x8f2a55949038a9610f50fb23b5883af3b4ecb3c3bb792cbcefbd1542c692be63"

\* a faulty hasCredential for RunsBlindToPrivateKey to reject: the value of the
\* private key decides, not its presence
hasCredentialByValue(credentials, cred) ==
    IF cred = "privateKey" THEN credentials.privateKey = PrivateKeyA
    ELSE credentials.sociosApiKey

\* !credentials.<cred> is false: the private key is a string, tested for being
\* non-empty; of the Socios key the run keeps only whether one is configured
hasCredential(credentials, cred) ==
    IF cred = "privateKey" THEN credentials.privateKey # ""
    ELSE credentials.sociosApiKey

\* the action function execute calls for this run (only when Dispatch finds one)
HandlerOf(e) ==
    LET d == Dispatch(e.resource, e.operation)
    IN ActionModules(d.module)[d.fn]

\* Runs the current item from its current step up to the next awaited HTTP
\* request, or to the end of the item.
RECURSIVE RunItem(_)
RunItem(e) ==
    IF e.pc # "run" THEN e
    ELSE IF ~Dispatch(e.resource, e.operation).found
    THEN CatchInExecute(e, Dispatch(e.resource, e.operation).message)
    ELSE IF e.step > Len(HandlerOf(e).steps) THEN Complete(e, HandlerOf(e))
    ELSE LET s == HandlerOf(e).steps[e.step]
             value == ParamValue(e, s.param)
             next == [e EXCEPT !.step = @ + 1]
         IN CASE s.op = "key" ->
                   IF hasCredential(e.credentials, s.param) THEN RunItem(next)
                   ELSE RunItem(Raise(e, s.text, s.fail))
              [] s.op = "addr" ->
                   IF normalizeAddressThrows(value)
                   THEN RunItem(Raise(e, InvalidAddressMessage(value), s.fail))
                   ELSE RunItem(next)
              [] s.op = "addrIf" ->
                   IF value # "" /\ normalizeAddressThrows(value)
                   THEN RunItem(Raise(e, InvalidAddressMessage(value), s.fail))
                   ELSE RunItem(next)
              [] s.op = "hash" ->
                   IF ~isValidTransactionHash(value)
                   THEN RunItem(Raise(e, s.text, s.fail))
                   ELSE RunItem(next)
              [] s.op = "format" ->
                   IF ~isValidAddress(value) THEN RunItem(Raise(e, "", s.fail))
                   ELSE RunItem(next)
              [] s.op \in {"bigint", "signature"} ->
                   IF LocalThrows(s.op, value)
                   THEN RunItem(Raise(e, LocalMessage(s.op, value), s.fail))
                   ELSE RunItem(next)
              [] s.op = "req" ->
                   IF s.via = "socios" /\ sociosApiRequestRefuses(e.credentials)
                   THEN RunItem(Raise([e EXCEPT !.failure = SociosKeyMessage,
                                                !.caught = s.fail.mode],
                                      SociosKeyMessage, s.fail))
                   ELSE [e EXCEPT !.pc = "await", !.request = RequestOf(e, s),
                                  !.inFlight = @ + 1, !.sent = @ + 1]

(***************************************************************************)
(* State.                                                                  *)
(***************************************************************************)
VARIABLES
    \* the invocations of Chiliz.execute, by invocation id
    runs,
    \* the module-level flag of Chiliz.node.ts
    licensingNoticeShown,
    \* who called logger.warn with the licensing notice, in order
    noticeLog,
    \* of execute and of poll: how many invocations started, and which was
    \* the first
    starts,
    \* the invocations of ChilizTrigger.poll, by invocation id
    polls,
    \* the module-level flag of ChilizTrigger.node.ts
    triggerNoticeShown,
    \* the trigger's parameters and credentials
    trigger,
    \* getWorkflowStaticData('node')
    webhookData,
    \* the block number of the chain's head
    head,
    \* what each finished poll returned, in order
    results,
    \* the last call of a helper function: its arguments and what it returned
    calc

executeVars == <<runs, licensingNoticeShown>>
triggerVars == <<polls, triggerNoticeShown, trigger, webhookData, head, results>>
vars == <<runs, licensingNoticeShown, noticeLog, starts, polls,
          triggerNoticeShown, trigger, webhookData, head, results, calc>>

\* no helper function has been called
NoCalc == [fn |-> "", args |-> <<>>, nums |-> <<>>, out |-> "", num |-> 0,
           threw |-> FALSE, transfers |-> <<>>, nfts |-> <<>>, checks |-> <<>>,
           params |-> <<>>]

\* the invocations that can be in progress at once
RunIds == 1..MaxRuns

\* a faulty NoticeFlagAfter for the notice property to reject: the flag is
\* left as it was
NoticeFlagKept(shown) == shown

\* if (!licensingNoticeShown) { logger.warn(...); licensingNoticeShown = true; }
\* whether the notice is logged, and the flag afterwards
NoticeLogged(shown) == ~shown
NoticeFlagAfter(shown) == IF ~shown THEN TRUE ELSE shown

NoStarts == [n |-> 0, first |-> 0]

Started(kind, v) ==
    [starts EXCEPT ![kind] = [n |-> @.n + 1,
                              first |-> IF @.n = 0 THEN v ELSE @.first]]

\* the (resource, operation) pairs a workflow can be configured with: what the
\* editor offers, and any case label the switch accepts
OperationChoices(resource) ==
    OperationOptions(resource) \cup DOMAIN SwitchCases(resource)

ListSizes(e) ==
    LET h == HandlerOf(e)
    IN IF e.step = Len(h.steps) /\ h.returns.kind = "list" THEN 0..MaxList
       ELSE IF e.step = Len(h.steps) /\ h.returns.kind = "listOrMessage"
       THEN (0..MaxList) \cup {-1}
       ELSE {0}

ItemParamsOf(e) ==
    IF Dispatch(e.resource, e.operation).found THEN ItemParams(HandlerOf(e))
    ELSE {<<>>}

\* the (resource, operation) pairs a workflow can be configured with
OperationPairs ==
    UNION {{<<resource, operation>> : operation \in OperationChoices(resource)} :
              resource \in Resources}

\* the run of execute on its entry: getInputData, the two parameters, and the
\* credentials its action functions will get
EnteredRun(pair, continueOnFail, privateKey, sociosApiKey, n) ==
    [IdleRun EXCEPT
        !.pc = "loop", !.resource = pair[1],
        !.operation = pair[2],
        !.continueOnFail = continueOnFail,
        !.credentials = [privateKey |-> privateKey,
                         sociosApiKey |-> sociosApiKey],
        !.items = n]

\* execute is called: the licensing notice, then the reading of the inputs
Start(v, pairs, counts, flags) ==
    /\ runs[v].pc = "idle"
    /\ \E pair \in pairs, continueOnFail \in flags,
          hasKey \in flags, sociosApiKey \in flags, n \in counts :
             runs' = [runs EXCEPT ![v] =
                 EnteredRun(pair, continueOnFail,
                            IF hasKey THEN PrivateKeyA ELSE "",
                            sociosApiKey, n)]
    /\ noticeLog' = IF NoticeLogged(licensingNoticeShown)
                    THEN Append(noticeLog, <<"execute", v>>)
                    ELSE noticeLog
    /\ licensingNoticeShown' = NoticeFlagAfter(licensingNoticeShown)
    /\ starts' = Started("execute", v)
    /\ UNCHANGED triggerVars
    /\ UNCHANGED calc

Execute(v) == Start(v, OperationPairs, 0..MaxItems, BOOLEAN)

\* the run after one turn of the item loop on an item of parameters ps
ItemOf(e, ps) == RunItem([e EXCEPT !.pc = "run", !.params = ps])

\* the run after the answer to its request in flight
AnsweredRun(e, answer, size) ==
    LET s == HandlerOf(e).steps[e.step]
        e1 == [e EXCEPT !.pc = "run", !.inFlight = @ - 1, !.size = size]
        result == Transport(s.via, answer)
    IN IF result.threw
       THEN RunItem(Raise([e1 EXCEPT !.failure = result.message,
                                     !.caught = s.fail.mode],
                          result.message, s.fail))
       ELSE IF answer = "null"
       THEN RunItem(Raise(e1, s.nil.prefix, s.nil))
       ELSE RunItem([e1 EXCEPT !.step = @ + 1])

\* one turn of the item loop, up to its first awaited request or to its end
Item(v) ==
    /\ runs[v].pc = "loop"
    /\ runs[v].i < runs[v].items
    /\ \E ps \in ItemParamsOf(runs[v]) :
          runs' = [runs EXCEPT ![v] = ItemOf(runs[v], ps)]
    /\ UNCHANGED <<licensingNoticeShown, noticeLog, starts>>
    /\ UNCHANGED triggerVars
    /\ UNCHANGED calc

\* the answer to the request in flight arrives; the item goes on to its next
\* awaited request or to its end
Respond(v) ==
    /\ runs[v].pc = "await"
    /\ LET e == runs[v]
           s == HandlerOf(e).steps[e.step]
       IN \E answer \in Answers(s), size \in ListSizes(e) :
             runs' = [runs EXCEPT ![v] = AnsweredRun(e, answer, size)]
    /\ UNCHANGED <<licensingNoticeShown, noticeLog, starts>>
    /\ UNCHANGED triggerVars
    /\ UNCHANGED calc

\* return [returnData]
ReturnData(v) ==
    /\ runs[v].pc = "loop"
    /\ runs[v].i = runs[v].items
    /\ runs' = [runs EXCEPT ![v].pc = "returned"]
    /\ UNCHANGED <<licensingNoticeShown, noticeLog, starts>>
    /\ UNCHANGED triggerVars
    /\ UNCHANGED calc

(***************************************************************************)
(* ChilizTrigger.node.ts: the polling trigger.                             *)
(***************************************************************************)
\* options of the 'event' parameter
TriggerEvents ==
    {"newPollCreated", "pollEnded", "tokenTransfer", "newRewardAvailable",
     "priceChangeAlert", "newFanTokenListed", "newBlock", "contractEvent"}

\* the symbols of KNOWN_FAN_TOKENS (constants.ts)
KnownSymbols ==
    {"BAR", "PSG", "JUV", "ACM", "ATM", "ASR", "GAL", "OG", "CITY", "INTER"}

\* ids the Socios API can give to a poll or a reward
ApiIds == {"8", "9", "10"}

\* how far back the first range of eth_getLogs starts
LookBack == 10

\* the prices 1.5 + Math.random() * 0.5 can give, in hundredths
PriceInputs == {150, 160, 165, 168}

\* a > b on strings of digits, as JavaScript compares strings: code unit by
\* code unit, a proper prefix being smaller
DigitRank(c) == CHOOSE k \in 0..9 : HexDigitOf(k) = c

RECURSIVE stringGreater(_, _)
stringGreater(a, b) ==
    IF Len(a) = 0 THEN FALSE
    ELSE IF Len(b) = 0 THEN TRUE
    ELSE IF CharAt(a, 1) = CharAt(b, 1)
    THEN stringGreater(sliceFrom(a, 1), sliceFrom(b, 1))
    ELSE DigitRank(CharAt(a, 1)) > DigitRank(CharAt(b, 1))

\* a faulty reduce that keeps its first element, for IdCursorNeverRepeats to
\* reject
reduceKeepingFirst(a, rest) == a

\* items.reduce((a, b) => a.id > b.id ? a : b) on a non-empty list of ids
RECURSIVE reduceLatest(_, _)
reduceLatest(a, rest) ==
    IF Len(rest) = 0 THEN a
    ELSE reduceLatest(IF stringGreater(a, Head(rest)) THEN a ELSE Head(rest),
                      Tail(rest))

\* The part of pollNewPolls after the answer of the API: what is emitted and
\* the cursor afterwards.  lastId is "" when webhookData holds none.
pollNewPolls(lastPollId, list) ==
    LET newPolls ==
            IF lastPollId # ""
            THEN SelectSeq(list, LAMBDA id : id # "" /\ stringGreater(id, lastPollId))
            ELSE list
    IN IF Len(list) = 0 \/ Len(newPolls) = 0
       THEN [emit |-> <<>>, last |-> lastPollId]
       ELSE [emit |-> newPolls, last |-> reduceLatest(Head(newPolls), Tail(newPolls))]

\* pollEndedPolls and pollNewRewards repeat the code of pollNewPolls on
\* lastEndedPollId and lastRewardId
pollEndedPolls(lastEndedPollId, list) == pollNewPolls(lastEndedPollId, list)

pollNewRewards(lastRewardId, list) == pollNewPolls(lastRewardId, list)

\* a block number of webhookData: undefined, or a number
NoBlock == [defined |-> FALSE, value |-> 0]
Block(n) == [defined |-> TRUE, value |-> n]

\* lastBlockNumber ? lastBlockNumber + 1 : currentBlock - 10
fromBlockOf(lastBlockNumber, currentBlock) ==
    IF lastBlockNumber.defined /\ lastBlockNumber.value # 0
    THEN lastBlockNumber.value + 1
    ELSE currentBlock - LookBack

\* a faulty test that skips only a head equal to the cursor, for
\* CursorNeverDecreases to reject
pollNewBlocksSkipsSameHead(lastBlockNumber, currentBlock) ==
    lastBlockNumber.defined /\ currentBlock = lastBlockNumber.value

\* lastBlockNumber !== undefined && currentBlock <= lastBlockNumber
pollNewBlocksSkips(lastBlockNumber, currentBlock) ==
    lastBlockNumber.defined /\ currentBlock <= lastBlockNumber.value

\* a faulty comparison that also holds at the threshold, for
\* PriceAlertAgainstPreviousPoll to reject
belowOrAtThreshold(mockPrice, lastPrice, threshold) ==
    LET diff == IF mockPrice >= lastPrice THEN mockPrice - lastPrice
                ELSE lastPrice - mockPrice
    IN diff * 100 <= threshold * lastPrice

\* Math.abs(percentageChange) < threshold, on prices in hundredths
belowThreshold(mockPrice, lastPrice, threshold) ==
    LET diff == IF mockPrice >= lastPrice THEN mockPrice - lastPrice
                ELSE lastPrice - mockPrice
    IN diff * 100 < threshold * lastPrice

\* the static data of a workflow that has not polled yet
FreshData ==
    [lastPollId |-> "", lastEndedPollId |-> "", lastRewardId |-> "",
     lastBlockNumber |-> NoBlock,
     lastPrice |-> NoBlock,
     knownTokens |-> [defined |-> FALSE, value |-> {}]]

IdlePoll ==
    [pc |-> "idle", lastId |-> "", lastBlockNumber |-> NoBlock,
     currentBlock |-> 0, fromBlock |-> 0]

\* the oldest block the contracts of the model have logs in, on a chain with
\* history (on a new chain: its block 0)
FirstLogBlock == FirstHead - 1

\* what a finished poll returned (count = 0: null), with the cursor it had
\* read when it started, the head it saw if it asked for one, the ids or the
\* block numbers of the items, and whether every request it sent was answered
\* without an error; for a poll that sent eth_getLogs, the first block of the
\* range it asked for and the blocks of the logs it was answered with; the
\* cursors webhookData holds when it returns, and whether it returned from
\* its catch block; for a poll of priceChangeAlert, the price it read from
\* webhookData, the price it drew, and the price webhookData holds afterwards
NoResult ==
    [event |-> "", hadCursor |-> FALSE, lastId |-> "", lastBlockNumber |-> NoBlock,
     sawHead |-> FALSE, currentBlock |-> 0, count |-> 0, ids |-> <<>>,
     blocks |-> <<>>, ok |-> TRUE, queried |-> FALSE, fromBlock |-> 0,
     fetched |-> <<>>, lastBlockNumberAfter |-> NoBlock, lastIdAfter |-> "",
     caught |-> FALSE, thrown |-> FALSE, lastPrice |-> NoBlock, mockPrice |-> 0,
     lastPriceAfter |-> NoBlock]

\* a faulty catch block that throws the error on, for PollNeverThrows to
\* reject
CaughtAndRethrown(res) == [res EXCEPT !.ok = FALSE, !.thrown = TRUE]

\* the catch block of a poll function: the error is logged and the function
\* returns null
Caught(res) == [res EXCEPT !.ok = FALSE, !.caught = TRUE]

\* the ascending list of a set of numbers
RECURSIVE Ascending(_)
Ascending(S) ==
    IF S = {} THEN <<>>
    ELSE LET m == CHOOSE x \in S : \A y \in S : x <= y
         IN <<m>> \o Ascending(S \ {m})

\* the lists of ids the Socios API can answer with
RECURSIVE ListsOver(_, _)
ListsOver(S, n) ==
    IF n = 0 THEN {<<>>}
    ELSE {<<>>} \cup {<<x>> \o l : x \in S, l \in ListsOver(S, n - 1)}

IdLists == {l \in ListsOver(ApiIds, MaxList + 1) :
               \A j, k \in 1..Len(l) : j # k => l[j] # l[k]}

\* the logs a node can answer eth_getLogs with, as the blocks they are in:
\* at most MaxList + 1 logs, all within the range asked for
LogAnswers(fromBlock, toBlock) ==
    LET oldest == IF toBlock < FirstLogBlock THEN 0 ELSE FirstLogBlock
        first == IF fromBlock < oldest THEN oldest ELSE fromBlock
    IN {Ascending(S) : S \in {T \in SUBSET (first..toBlock) :
                                 Cardinality(T) <= MaxList + 1}}

(***************************************************************************)
(* One invocation of ChilizTrigger.poll.                                   *)
(***************************************************************************)
PollsStarted == starts.poll.n

\* whether webhookData holds the cursor this event reads
HasCursor(event, data) ==
    CASE event = "newPollCreated" -> data.lastPollId # ""
      [] event = "pollEnded" -> data.lastEndedPollId # ""
      [] event = "newRewardAvailable" -> data.lastRewardId # ""
      [] event \in {"tokenTransfer", "newBlock", "contractEvent"} ->
           data.lastBlockNumber.defined
      [] event = "priceChangeAlert" -> data.lastPrice.defined
      [] event = "newFanTokenListed" -> data.knownTokens.defined
      [] OTHER -> FALSE

\* the id cursor an event reads when it starts ("" for the other events)
IdCursor(event, data) ==
    CASE event = "newPollCreated" -> data.lastPollId
      [] event = "pollEnded" -> data.lastEndedPollId
      [] event = "newRewardAvailable" -> data.lastRewardId
      [] OTHER -> ""

\* the poll function returns: null when items is empty
Finish(p, res, data) ==
    /\ polls' = [polls EXCEPT ![p] = IdlePoll]
    /\ results' = Append(results,
                          [res EXCEPT
                              !.lastBlockNumberAfter = data.lastBlockNumber,
                              !.lastIdAfter = IdCursor(res.event, data),
                              !.lastPriceAfter =
                                  IF res.event = "priceChangeAlert"
                                  THEN data.lastPrice ELSE NoBlock])
    /\ webhookData' = data

\* pollPriceChanges, which awaits nothing
pollPriceChanges(p, res, mockPrice) ==
    LET lastPrice == webhookData.lastPrice
        data == [webhookData EXCEPT !.lastPrice = Block(mockPrice)]
        read == [res EXCEPT !.lastPrice = lastPrice, !.mockPrice = mockPrice]
    IN IF ~lastPrice.defined THEN Finish(p, read, data)
       ELSE IF belowThreshold(mockPrice, lastPrice.value, trigger.priceThreshold)
       THEN Finish(p, read, data)
       ELSE Finish(p, [read EXCEPT !.count = 1], data)

\* pollNewTokens, which awaits nothing
pollNewTokens(p, res) ==
    LET knownTokens == webhookData.knownTokens
        currentTokens == KnownSymbols
        newTokens == currentTokens \ knownTokens.value
    IN IF ~knownTokens.defined
       THEN Finish(p, res, [webhookData EXCEPT
                               !.knownTokens = [defined |-> TRUE,
                                                value |-> currentTokens]])
       ELSE IF newTokens = {} THEN Finish(p, res, webhookData)
       ELSE Finish(p, [res EXCEPT !.count = Cardinality(newTokens)],
                   [webhookData EXCEPT
                       !.knownTokens = [defined |-> TRUE, value |-> currentTokens]])

\* poll is called: the licensing notice, then the function of the event up
\* to its first awaited request (or to its end when it sends none)
Poll(p) ==
    /\ polls[p].pc = "idle"
    /\ PollsStarted < MaxPolls
    /\ noticeLog' = IF NoticeLogged(triggerNoticeShown)
                    THEN Append(noticeLog, <<"poll", p>>)
                    ELSE noticeLog
    /\ triggerNoticeShown' = NoticeFlagAfter(triggerNoticeShown)
    /\ starts' = Started("poll", p)
    /\ LET event == trigger.event
           res == [NoResult EXCEPT
                      !.event = event,
                      !.hadCursor = HasCursor(event, webhookData),
                      !.lastId = IdCursor(event, webhookData),
                      !.lastBlockNumber = webhookData.lastBlockNumber]
           started == [IdlePoll EXCEPT
                          !.lastId = IdCursor(event, webhookData),
                          !.lastBlockNumber = webhookData.lastBlockNumber]
       IN CASE event \in {"newPollCreated", "pollEnded", "newRewardAvailable"} ->
                 IF ~trigger.sociosApiKey
                 THEN Finish(p, res, webhookData)
                 ELSE /\ polls' = [polls EXCEPT ![p] =
                                      [started EXCEPT !.pc = "awaitSocios"]]
                      /\ UNCHANGED <<webhookData, results>>
            [] event \in {"tokenTransfer", "newBlock"} ->
                 /\ polls' = [polls EXCEPT ![p] = [started EXCEPT !.pc = "awaitHead"]]
                 /\ UNCHANGED <<webhookData, results>>
            [] event = "contractEvent" ->
                 IF trigger.contractAddress = ""
                 THEN Finish(p, res, webhookData)
                 ELSE /\ polls' = [polls EXCEPT ![p] =
                                      [started EXCEPT !.pc = "awaitHead"]]
                      /\ UNCHANGED <<webhookData, results>>
            [] event = "priceChangeAlert" ->
                 \E mockPrice \in PriceInputs : pollPriceChanges(p, res, mockPrice)
            [] event = "newFanTokenListed" -> pollNewTokens(p, res)
            [] OTHER -> Finish(p, res, webhookData)
    /\ UNCHANGED <<trigger, head>>
    /\ UNCHANGED <<calc, runs, licensingNoticeShown>>

\* the result of a poll that awaited a request, before its items are known
Pending(p) ==
    [NoResult EXCEPT
        !.event = trigger.event,
        !.hadCursor = IF trigger.event \in {"newPollCreated", "pollEnded",
                                            "newRewardAvailable"}
                      THEN polls[p].lastId # ""
                      ELSE polls[p].lastBlockNumber.defined,
        !.lastId = polls[p].lastId,
        !.lastBlockNumber = polls[p].lastBlockNumber,
        !.sawHead = polls[p].pc \in {"awaitBlock", "awaitLogs"},
        !.currentBlock = polls[p].currentBlock]

\* the Socios API answers the request of pollNewPolls, pollEndedPolls or
\* pollNewRewards: a list of polls or rewards, something that is no array, or
\* a failed request
SociosAnswer(p) ==
    /\ polls[p].pc = "awaitSocios"
    /\ \E answer \in {"list", "other", "http"}, list \in IdLists :
          LET outcome ==
                  CASE trigger.event = "newPollCreated" ->
                         pollNewPolls(polls[p].lastId, list)
                    [] trigger.event = "pollEnded" ->
                         pollEndedPolls(polls[p].lastId, list)
                    [] trigger.event = "newRewardAvailable" ->
                         pollNewRewards(polls[p].lastId, list)
              data ==
                  CASE trigger.event = "newPollCreated" ->
                         [webhookData EXCEPT !.lastPollId = outcome.last]
                    [] trigger.event = "pollEnded" ->
                         [webhookData EXCEPT !.lastEndedPollId = outcome.last]
                    [] trigger.event = "newRewardAvailable" ->
                         [webhookData EXCEPT !.lastRewardId = outcome.last]
          IN CASE answer = "list" ->
                    IF Len(outcome.emit) = 0
                    THEN Finish(p, Pending(p), webhookData)
                    ELSE Finish(p, [Pending(p) EXCEPT !.ids = outcome.emit,
                                                      !.count = Len(outcome.emit)],
                                data)
               [] answer = "other" -> list = <<>> /\ Finish(p, Pending(p), webhookData)
               [] answer = "http" ->
                    list = <<>> /\ Finish(p, Caught(Pending(p)), webhookData)
    /\ UNCHANGED <<triggerNoticeShown, trigger, head>>
    /\ UNCHANGED <<calc, runs, licensingNoticeShown, noticeLog, starts>>

\* the node answers eth_blockNumber: the head, or an error
HeadAnswer(p) ==
    /\ polls[p].pc = "awaitHead"
    /\ \E answer \in {"ok", "error"} :
          LET currentBlock == head
              lastBlockNumber == polls[p].lastBlockNumber
              fromBlock == fromBlockOf(lastBlockNumber, currentBlock)
              seen == [Pending(p) EXCEPT !.sawHead = TRUE,
                                         !.currentBlock = currentBlock]
              next(pc) ==
                  /\ polls' = [polls EXCEPT ![p] =
                                  [@ EXCEPT !.pc = pc, !.currentBlock = currentBlock,
                                            !.fromBlock = fromBlock]]
                  /\ UNCHANGED <<webhookData, results>>
          IN CASE answer = "error" ->
                    Finish(p, Caught(Pending(p)), webhookData)
               [] answer = "ok" /\ trigger.event = "newBlock" ->
                    IF pollNewBlocksSkips(lastBlockNumber, currentBlock)
                    THEN Finish(p, seen, webhookData)
                    ELSE next("awaitBlock")
               [] answer = "ok" /\ trigger.event = "tokenTransfer" ->
                    IF fromBlock > currentBlock
                    THEN Finish(p, seen, webhookData)
                    ELSE IF trigger.tokenSymbol \notin KnownSymbols
                    THEN Finish(p, seen, webhookData)
                    ELSE next("awaitLogs")
               [] answer = "ok" /\ trigger.event = "contractEvent" ->
                    IF fromBlock > currentBlock
                    THEN Finish(p, seen, webhookData)
                    ELSE next("awaitLogs")
    /\ UNCHANGED <<triggerNoticeShown, trigger, head>>
    /\ UNCHANGED <<calc, runs, licensingNoticeShown, noticeLog, starts>>

\* the node answers eth_getBlockByNumber: the block, null, or an error
BlockAnswer(p) ==
    /\ polls[p].pc = "awaitBlock"
    /\ \E answer \in {"ok", "null", "error"} :
          LET currentBlock == polls[p].currentBlock
              data == [webhookData EXCEPT !.lastBlockNumber = Block(currentBlock)]
          IN CASE answer = "error" ->
                    Finish(p, Caught(Pending(p)), webhookData)
               [] answer = "null" ->
                    Finish(p, [Pending(p) EXCEPT !.ok = FALSE], data)
               [] answer = "ok" ->
                    Finish(p, [Pending(p) EXCEPT !.count = 1,
                                                 !.blocks = <<currentBlock>>], data)
    /\ UNCHANGED <<triggerNoticeShown, trigger, head>>
    /\ UNCHANGED <<calc, runs, licensingNoticeShown, noticeLog, starts>>

\* the node answers eth_getLogs: logs of the range asked for, logs
\* pollTokenTransfers cannot parse (data '0x', which BigInt rejects), or an
\* error
LogsAnswer(p) ==
    /\ polls[p].pc = "awaitLogs"
    /\ \E answer \in {"logs", "unparsable", "error"},
          logs \in LogAnswers(polls[p].fromBlock, polls[p].currentBlock) :
          LET data == [webhookData EXCEPT
                          !.lastBlockNumber = Block(polls[p].currentBlock)]
              asked == [Pending(p) EXCEPT !.queried = TRUE,
                                          !.fromBlock = polls[p].fromBlock]
          IN CASE answer = "error" ->
                    logs = <<>> /\ Finish(p, Caught(asked), webhookData)
               [] answer = "unparsable" ->
                    /\ logs # <<>>
                    /\ trigger.event = "tokenTransfer"
                    /\ Finish(p, Caught([asked EXCEPT !.fetched = logs]), data)
               [] answer = "logs" ->
                    Finish(p, [asked EXCEPT !.count = Len(logs), !.blocks = logs,
                                            !.fetched = logs], data)
    /\ UNCHANGED <<triggerNoticeShown, trigger, head>>
    /\ UNCHANGED <<calc, runs, licensingNoticeShown, noticeLog, starts>>

\* the chain grows by one block: MaxHead blocks past the head it had when the
\* workflow was activated
MineBlock ==
    /\ head \notin {MaxHead, FirstHead + MaxHead}
    /\ head' = head + 1
    /\ UNCHANGED <<polls, triggerNoticeShown, trigger, webhookData, results>>
    /\ UNCHANGED <<calc, runs, licensingNoticeShown, noticeLog, starts>>


(***************************************************************************)
(* Specifications.                                                         *)
(***************************************************************************)
TriggerConfigs ==
    [event : TriggerEvents, sociosApiKey : BOOLEAN, tokenSymbol : {"BAR", "XYZ"},
     contractAddress : {"", AddrMixed}, priceThreshold : {5}]

\* a value of the event parameter (set by an expression) that is none of the
\* options
UnknownEventConfig ==
    [event |-> "somethingElse", sociosApiKey |-> FALSE, tokenSymbol |-> "BAR",
     contractAddress |-> "", priceThreshold |-> 5]

InitState ==
    /\ runs = [v \in RunIds |-> IdleRun]
    /\ licensingNoticeShown = FALSE
    /\ noticeLog = <<>>
    /\ starts = [execute |-> NoStarts, poll |-> NoStarts]
    /\ polls = [p \in RunIds |-> IdlePoll]
    /\ triggerNoticeShown = FALSE
    /\ webhookData = FreshData
    /\ results = <<>>
    /\ calc = NoCalc

\* one invocation of execute, any operation
Init ==
    /\ InitState
    /\ head = FirstHead
    /\ trigger \in {t \in TriggerConfigs :
                       /\ t.event = "tokenTransfer" /\ ~t.sociosApiKey
                       /\ t.tokenSymbol = "BAR" /\ t.contractAddress = ""}

Next ==
    \/ Execute(1)
    \/ Item(1)
    \/ Respond(1)
    \/ ReturnData(1)

Spec == Init /\ [][Next]_vars

\* an active workflow: poll invocations that do not overlap, on a chain that
\* grows; the workflow is activated on a chain with history, or on a new one
\* whose head is its block 0
InitTrigger ==
    /\ InitState
    /\ head \in {0, FirstHead}
    /\ trigger \in TriggerConfigs \cup {UnknownEventConfig}

NextTrigger ==
    \/ Poll(1)
    \/ SociosAnswer(1)
    \/ HeadAnswer(1)
    \/ BlockAnswer(1)
    \/ LogsAnswer(1)
    \/ MineBlock

SpecTrigger == InitTrigger /\ [][NextTrigger]_vars

\* one process: invocations of execute and of poll that interleave at their
\* awaited requests
StartConcurrently(v) ==
    Start(v, {<<"network", "getGasPrice">>}, {1}, {FALSE})

InitNotice ==
    /\ InitState
    /\ head = FirstHead
    /\ trigger \in {t \in TriggerConfigs :
                       /\ t.event = "tokenTransfer" /\ ~t.sociosApiKey
                       /\ t.tokenSymbol = "XYZ" /\ t.contractAddress = ""}

NextNotice ==
    \E v \in RunIds :
        \/ StartConcurrently(v)
        \/ Item(v)
        \/ Respond(v)
        \/ ReturnData(v)
        \/ Poll(v)
        \/ HeadAnswer(v)

SpecNotice == InitNotice /\ [][NextNotice]_vars


(***************************************************************************)
(* The helper functions, called on their own.                              *)
(***************************************************************************)
\* digits of the fraction the amounts of the model have at most
MaxFraction == 3

RECURSIVE Pow10(_)
Pow10(n) == IF n = 0 THEN 1 ELSE 10 * Pow10(n - 1)

\* the number a string of decimal digits denotes (0 for the empty string)
RECURSIVE digitsValue(_)
digitsValue(s) ==
    IF Len(s) = 0 THEN 0
    ELSE 10 * digitsValue(SubSeq(s, 1, Len(s) - 1)) + DigitRank(CharAt(s, Len(s)))

\* BigInt(s) where it does not throw
bigIntOf(s) ==
    IF Len(s) > 0 /\ CharAt(s, 1) = "-" THEN 0 - digitsValue(sliceFrom(s, 1))
    ELSE IF Len(s) > 0 /\ CharAt(s, 1) = "+" THEN digitsValue(sliceFrom(s, 1))
    ELSE digitsValue(s)

\* (n).toString() of a bigint
RECURSIVE naturalToString(_)
naturalToString(n) ==
    IF n < 10 THEN HexDigitOf(n)
    ELSE naturalToString(n \div 10) \o HexDigitOf(n % 10)

bigIntToString(n) ==
    IF n < 0 THEN "-" \o naturalToString(0 - n) ELSE naturalToString(n)

\* a / b and a % b on bigints, b # 0: the quotient is truncated towards zero
\* and the remainder has the sign of a
bigIntDiv(a, b) ==
    LET magnitude == (IF a < 0 THEN 0 - a ELSE a) \div (IF b < 0 THEN 0 - b ELSE b)
    IN IF (a < 0) # (b < 0) THEN 0 - magnitude ELSE magnitude
bigIntRem(a, b) == a - b * bigIntDiv(a, b)

RECURSIVE padEnd(_, _, _)
padEnd(s, n, c) == IF Len(s) >= n THEN s ELSE padEnd(s \o c, n, c)

\* s.slice(0, n)
sliceTo(s, n) == SubSeq(s, 1, IF n < Len(s) THEN n ELSE Len(s))

\* s.replace(/0+$/, '')
RECURSIVE trimTrailingZeros(_)
trimTrailingZeros(s) ==
    IF Len(s) > 0 /\ CharAt(s, Len(s)) = "0"
    THEN trimTrailingZeros(SubSeq(s, 1, Len(s) - 1))
    ELSE s

\* s.split('.')
RECURSIVE splitDot(_)
splitDot(s) ==
    LET dots == {k \in 1..Len(s) : CharAt(s, k) = "."}
    IN IF dots = {} THEN <<s>>
       ELSE LET d == CHOOSE k \in dots : \A j \in dots : k <= j
            IN <<SubSeq(s, 1, d - 1)>> \o splitDot(SubSeq(s, d + 1, Len(s)))

\* the decimals of a gwei
GweiDecimals == 9

\* the parsing of `amount` in convertUnits, where it does not throw
parseUnits(amount, places) ==
    LET parts == splitDot(amount)
    IN IF Len(parts) = 2
       THEN bigIntOf(parts[1]) * Pow10(places)
            + bigIntOf(sliceTo(padEnd(parts[2], places, "0"), places))
       ELSE bigIntOf(amount) * Pow10(places)

parseUnitsThrows(amount, places) ==
    LET parts == splitDot(amount)
    IN IF Len(parts) = 2
       THEN \/ bigIntThrows(parts[1])
            \/ bigIntThrows(sliceTo(padEnd(parts[2], places, "0"), places))
       ELSE bigIntThrows(amount)

\* the formatting of the result in convertUnits
formatUnits(amountBigInt, places) ==
    LET wholeValue == bigIntDiv(amountBigInt, Pow10(places))
        remainder == bigIntRem(amountBigInt, Pow10(places))
    IN IF remainder > 0
       THEN bigIntToString(wholeValue) \o "." \o
            trimTrailingZeros(padStart(bigIntToString(remainder), places, "0"))
       ELSE bigIntToString(wholeValue)

convertUnitsThrows(amount, fromUnit, decimals) ==
    CASE fromUnit = "wei" -> bigIntThrows(amount)
      [] fromUnit = "gwei" -> parseUnitsThrows(amount, GweiDecimals)
      [] OTHER -> parseUnitsThrows(amount, decimals)

\* conversion.to.amount of convertUnits, where it does not throw
convertUnits(amount, fromUnit, toUnit, decimals) ==
    LET amountBigInt ==
            CASE fromUnit = "wei" -> bigIntOf(amount)
              [] fromUnit = "gwei" -> parseUnits(amount, GweiDecimals)
              [] OTHER -> parseUnits(amount, decimals)
    IN CASE toUnit = "wei" -> bigIntToString(amountBigInt)
         [] toUnit = "gwei" -> formatUnits(amountBigInt, GweiDecimals)
         [] OTHER -> formatUnits(amountBigInt, decimals)

\* the values of the parameters `amount`, `fromUnit`/`toUnit` and `decimals`
AmountStrings ==
    {"0", "1", "7", "12", "1.5", "1.50", "0.5", "0.05", "12.25", "0.125",
     "3.14", "-1.5", "-2", "abc", "1.2.3", ""}
UnitInputs == {"wei", "chz"}
DecimalsInputs == 0..MaxFraction

\* one behaviour of the helpers' specification makes one call
NothingCalled == calc = NoCalc

\* a call of convertUnits
Called(fn, args, nums, threw, out, num) ==
    [NoCalc EXCEPT !.fn = fn, !.args = args, !.nums = nums, !.out = out,
                   !.num = num, !.threw = threw]

ConvertUnits ==
    /\ NothingCalled
    /\ \E amount \in AmountStrings, fromUnit \in UnitInputs, toUnit \in UnitInputs,
          decimals \in DecimalsInputs :
          LET threw == convertUnitsThrows(amount, fromUnit, decimals)
          IN calc' = Called("convertUnits", <<amount, fromUnit, toUnit>>, <<decimals>>,
                            threw,
                            IF threw THEN ""
                            ELSE convertUnits(amount, fromUnit, toUnit, decimals), 0)
    /\ UNCHANGED <<runs, licensingNoticeShown, noticeLog, starts>>
    /\ UNCHANGED triggerVars


\* addresses the helper functions are called with: well-formed in mixed,
\* upper and lower case, without prefix, and malformed in each way
AddressStrings ==
    {AddrMixed, AddrNoPrefix, AddrNonHex,
     "0x742D35CC6634C0532925A3B844BC454E4438F44E",
     "0x742d35cc6634c0532925a3b844bc454e4438f44e",
     "742D35CC6634C0532925A3B844BC454E4438F44E",
     "0x0000000000000000000000000000000000000000",
     "0x742d35Cc6634C0532925a3b844Bc454e4438f44",
     "0x742d35Cc6634C0532925a3b844Bc454e4438f44e0",
     "742d35Cc6634C0532925a3b844Bc454e4438f4",
     "0X742d35Cc6634C0532925a3b844Bc454e4438f44e",
     "0xGGGGGGGGGGGGGGGGGGGGGGGGGGGGGGGGGGGGGGGG",
     "0x0x742d35Cc6634C0532925a3b844Bc454e4438f4",
     " 0x742d35Cc6634C0532925a3b844Bc454e4438f44e",
     "0x", ""}

\* isValidAddress of transport/client.ts
clientIsValidAddress(address) == MatchesHex(address, AddressHexLen)

\* a call of normalizeAddress of utils/helpers.ts
NormalizeAddress ==
    /\ NothingCalled
    /\ \E address \in AddressStrings :
          LET threw == normalizeAddressThrows(address)
          IN calc' = Called("normalizeAddress", <<address>>, <<>>, threw,
                            IF threw THEN InvalidAddressMessage(address)
                            ELSE normalizeAddress(address), 0)
    /\ UNCHANGED <<runs, licensingNoticeShown, noticeLog, starts>>
    /\ UNCHANGED triggerVars

\* a call of isValidAddress of utils/helpers.ts and of its copy in
\* transport/client.ts (out: the answer of the first, args[2]: of the copy)
IsValidAddress ==
    /\ NothingCalled
    /\ \E address \in AddressStrings :
          calc' = Called("isValidAddress",
                         <<address, IF clientIsValidAddress(address)
                                    THEN "true" ELSE "false">>,
                         <<>>, FALSE,
                         IF isValidAddress(address) THEN "true" ELSE "false", 0)
    /\ UNCHANGED <<runs, licensingNoticeShown, noticeLog, starts>>
    /\ UNCHANGED triggerVars

\* the value of a hexadecimal digit of either case
HexValueOf(c) ==
    IF c \in HexDigitsUpper THEN CHOOSE d \in 10..15 : LowerOf(c) = HexDigitOf(d)
    ELSE CHOOSE d \in 0..15 : c = HexDigitOf(d)

\* parseInt(s, 16): an optional sign, an optional prefix 0x or 0X, then the
\* longest run of hexadecimal digits; NaN when that run is empty
RECURSIVE hexRun(_)
hexRun(s) ==
    IF Len(s) > 0 /\ CharAt(s, 1) \in HexChars
    THEN CharAt(s, 1) \o hexRun(sliceFrom(s, 1))
    ELSE ""

RECURSIVE hexRunValue(_)
hexRunValue(s) ==
    IF Len(s) = 0 THEN 0
    ELSE 16 * hexRunValue(SubSeq(s, 1, Len(s) - 1)) + HexValueOf(CharAt(s, Len(s)))

parseInt16(s) ==
    LET negative == Len(s) > 0 /\ CharAt(s, 1) = "-"
        unsigned == IF Len(s) > 0 /\ CharAt(s, 1) \in {"-", "+"}
                    THEN sliceFrom(s, 1) ELSE s
        digits == IF startsWith(unsigned, "0x") \/ startsWith(unsigned, "0X")
                  THEN sliceFrom(unsigned, 2) ELSE unsigned
        run == hexRun(digits)
    IN [nan |-> run = "",
        value |-> IF negative THEN 0 - hexRunValue(run) ELSE hexRunValue(run)]

\* hexToNumber: if (!hex || hex === '0x') return 0; return parseInt(hex, 16)
hexToNumber(hex) ==
    IF hex = "" \/ hex = "0x" THEN [nan |-> FALSE, value |-> 0]
    ELSE parseInt16(hex)

\* a faulty numberToHex for HexRoundTrip to reject: it pads to eight digits
numberToHexPadded(num) == padHex(toString16(num), 8)

\* numberToHex: '0x' + num.toString(16)
numberToHex(num) ==
    IF num < 0 THEN "0x-" \o toString16(0 - num) ELSE "0x" \o toString16(num)

\* hex strings the helper functions are called with
HexStrings ==
    {"0x0", "0x1", "0x10", "0xff", "0xFF", "ff", "10", "0x00ff", "00ff", "0x000",
     "0x15af0", "0xde0b6b3", "0x7fffffff", "0x", "", "0xzz", "xyz", "0x1g", "-ff"}

\* a call of hexToNumber (num: the number, NaN apart; threw: it was NaN)
HexToNumber ==
    /\ NothingCalled
    /\ \E hex \in HexStrings :
          LET n == hexToNumber(hex)
          IN calc' = Called("hexToNumber", <<hex>>, <<>>, n.nan, "",
                            IF n.nan THEN 0 ELSE n.value)
    /\ UNCHANGED <<runs, licensingNoticeShown, noticeLog, starts>>
    /\ UNCHANGED triggerVars

\* numbers the helper functions are called with
NumberInputs == {0, 1, 15, 16, 255, 256, 4095, 88816, 65535, 2147483647}

\* a call of numberToHex
NumberToHex ==
    /\ NothingCalled
    /\ \E num \in NumberInputs :
          calc' = Called("numberToHex", <<>>, <<num>>, FALSE, numberToHex(num), 0)
    /\ UNCHANGED <<runs, licensingNoticeShown, noticeLog, starts>>
    /\ UNCHANGED triggerVars

\* a faulty calculatePercentage for PercentageTruncated to reject: it
\* divides by zero
calculatePercentageUnguarded(part, total) ==
    [threw |-> total = 0,
     hundredths |-> IF total = 0 THEN 0 ELSE bigIntDiv(part * 10000, total)]

\* calculatePercentage: the number it returns, in hundredths
\*   if (total === BigInt(0)) return 0;
\*   return Number((part * BigInt(10000)) / total) / 100;
calculatePercentage(part, total) ==
    [threw |-> FALSE,
     hundredths |-> IF total = 0 THEN 0 ELSE bigIntDiv(part * 10000, total)]

PartInputs == {-7, -1, 0, 1, 2, 7, 25, 33, 100, 250}
TotalInputs == {-3, 0, 1, 3, 4, 7, 100, 300}

\* a call of calculatePercentage (num: the result in hundredths)
CalculatePercentage ==
    /\ NothingCalled
    /\ \E part \in PartInputs, total \in TotalInputs :
          LET r == calculatePercentage(part, total)
          IN calc' = Called("calculatePercentage", <<>>, <<part, total>>, r.threw,
                            "", r.hundredths)
    /\ UNCHANGED <<runs, licensingNoticeShown, noticeLog, starts>>
    /\ UNCHANGED triggerVars

\* a faulty selectorOf for SelectorsDocumented to reject: it looks the key up
\* in the table of getFunctionSelector, which has no shorthand keys
selectorOfFullOnly(key) == getFunctionSelector(key)

\* FUNCTION_SELECTORS[key] ("" for undefined)
selectorOf(key) ==
    IF key \in DOMAIN FUNCTION_SELECTORS THEN FUNCTION_SELECTORS[key] ELSE ""

\* a lookup in FUNCTION_SELECTORS
SelectorLookup ==
    /\ NothingCalled
    /\ \E key \in DOMAIN FUNCTION_SELECTORS \cup {"mint", "mint(address,uint256)"} :
          calc' = Called("FUNCTION_SELECTORS", <<key>>, <<>>, FALSE, selectorOf(key), 0)
    /\ UNCHANGED <<runs, licensingNoticeShown, noticeLog, starts>>
    /\ UNCHANGED triggerVars

(***************************************************************************)
(* getUserNFTs of actions/nfts/nfts.ts: the holdings computed from the     *)
(* transfers ChilizScan answers with, newest first (sort: 'desc').         *)
(***************************************************************************)
\* transfers in one answer of the tokennfttx request: 0..MaxTransfers
MaxTransfers == 3

UserAddress == AddrMixed
OtherAddress == "0x000000000000000000000000000000000000dEaD"

\* the tokens of the model, as contract address and token id
NftTokens == {<<"0xaaa1", "1">>, <<"0xaaa1", "2">>, <<"0xbbb2", "1">>}

\* the key of the holdings map: `${transfer.contractAddress}-${transfer.tokenID}`
holdingsKey(contractAddress, tokenID) == contractAddress \o "-" \o tokenID

\* holdingsMap as the list of its entries in insertion order
holdingsHas(holdingsMap, key) ==
    \E j \in 1..Len(holdingsMap) : holdingsMap[j].key = key

holdingsDelete(holdingsMap, key) ==
    SelectSeq(holdingsMap, LAMBDA entry : entry.key # key)

\* the loop over nftTransfers, from its k-th element on
RECURSIVE holdingsFrom(_, _, _, _)
holdingsFrom(nftTransfers, k, normalizedUser, holdingsMap) ==
    IF k > Len(nftTransfers) THEN holdingsMap
    ELSE LET transfer == nftTransfers[k]
             key == holdingsKey(transfer.contractAddress, transfer.tokenID)
             isReceived == toLowerCase(transfer.to) = normalizedUser
             isSent == toLowerCase(transfer.from) = normalizedUser
             after ==
                 IF isReceived /\ ~holdingsHas(holdingsMap, key)
                 THEN Append(holdingsMap,
                             [key |-> key,
                              contractAddress |-> transfer.contractAddress,
                              tokenId |-> transfer.tokenID])
                 ELSE IF isSent THEN holdingsDelete(holdingsMap, key)
                 ELSE holdingsMap
         IN holdingsFrom(nftTransfers, k + 1, normalizedUser, after)

\* the json of the item getUserNFTs returns when the request succeeded
\* (counted: whether the item has an nftCount)
getUserNFTs(userAddress, nftTransfers) ==
    LET normalizedUser == normalizeAddress(userAddress)
        nfts == holdingsFrom(nftTransfers, 1, normalizedUser, <<>>)
    IN IF Len(nftTransfers) = 0
       THEN [address |-> normalizedUser, message |-> "No NFTs found",
             counted |-> FALSE, nftCount |-> 0, nfts |-> <<>>]
       ELSE [address |-> normalizedUser, message |-> "", counted |-> TRUE,
             nftCount |-> Len(nfts), nfts |-> nfts]

\* a transfer of one token that involves the user: to the user or from the user
TransferInputs ==
    {[contractAddress |-> token[1], tokenID |-> token[2], from |-> ends[1],
      to |-> ends[2]] :
        token \in NftTokens,
        ends \in {<<OtherAddress, UserAddress>>, <<UserAddress, OtherAddress>>}}

\* whether the user holds the token after the transfer, and before it
HeldAfter(transfer) == transfer.to = UserAddress
HeldBefore(transfer) == transfer.from = UserAddress

\* the answers of ChilizScan, newest transfer first: of two transfers of one
\* token with none of that token between them, the older one leaves the token
\* where the newer one takes it from
TransferHistories ==
    {h \in UNION {[1..n -> TransferInputs] : n \in 0..MaxTransfers} :
        \A newer, older \in 1..Len(h) :
            /\ newer < older
            /\ h[newer].contractAddress = h[older].contractAddress
            /\ h[newer].tokenID = h[older].tokenID
            /\ \A k \in (newer + 1)..(older - 1) :
                   \/ h[k].contractAddress # h[newer].contractAddress
                   \/ h[k].tokenID # h[newer].tokenID
            => HeldAfter(h[older]) = HeldBefore(h[newer])}

\* a call of getUserNFTs whose request is answered with transfers
GetUserNFTs ==
    /\ NothingCalled
    /\ \E nftTransfers \in TransferHistories :
          LET json == getUserNFTs(UserAddress, nftTransfers)
          IN calc' = [Called("getUserNFTs", <<UserAddress>>,
                             IF json.counted THEN <<json.nftCount>> ELSE <<>>,
                             FALSE, json.message, 0)
                         EXCEPT !.transfers = nftTransfers, !.nfts = json.nfts]
    /\ UNCHANGED <<runs, licensingNoticeShown, noticeLog, starts>>
    /\ UNCHANGED triggerVars

(***************************************************************************)
(* The RPC URL of a credential: getRpcUrl of transport/client.ts, which    *)
(* jsonRpcRequest posts to, and the copy in triggerJsonRpcRequest.         *)
(***************************************************************************)
\* NETWORKS of constants/constants.ts: the rpcUrl of its keys
NETWORKS ==
    [mainnet |-> "https://rpc.chiliz.com", spicy |-> "https://spicy-rpc.chiliz.com"]

\* NETWORKS[network]?.rpcUrl: "" stands for undefined
networkRpcUrl(network) ==
    CASE network = "mainnet" -> NETWORKS.mainnet
      [] network = "spicy" -> NETWORKS.spicy
      [] OTHER -> ""

getRpcUrl(credentials) ==
    IF credentials.network = "custom" /\ credentials.rpcEndpoint # ""
    THEN credentials.rpcEndpoint
    ELSE IF networkRpcUrl(credentials.network) # ""
    THEN networkRpcUrl(credentials.network)
    ELSE NETWORKS.mainnet

\* the url triggerJsonRpcRequest posts to
triggerRpcUrl(credentials) ==
    IF credentials.network = "custom" /\ credentials.rpcEndpoint # ""
    THEN credentials.rpcEndpoint
    ELSE IF credentials.network = "mainnet" THEN NETWORKS.mainnet
    ELSE NETWORKS.spicy

NetworkInputs == {"mainnet", "spicy", "custom"}
RpcEndpointInputs == {"", "https://rpc.example.org"}

\* one request of an action and one of the trigger under the same credential
\* (args: network, rpcEndpoint, the url of the action; out: of the trigger)
ResolveRpcUrl ==
    /\ NothingCalled
    /\ \E network \in NetworkInputs, rpcEndpoint \in RpcEndpointInputs :
          LET credentials == [network |-> network, rpcEndpoint |-> rpcEndpoint]
          IN calc' = Called("rpcUrl",
                            <<network, rpcEndpoint, getRpcUrl(credentials)>>,
                            <<>>, FALSE, triggerRpcUrl(credentials), 0)
    /\ UNCHANGED <<runs, licensingNoticeShown, noticeLog, starts>>
    /\ UNCHANGED triggerVars

(***************************************************************************)
(* The three selector tables: FUNCTION_SELECTORS and getFunctionSelector   *)
(* of utils/helpers.ts, calculateFunctionSelector of utility.ts.           *)
(***************************************************************************)
\* commonSelectors inside calculateFunctionSelector
commonSelectors ==
    [s \in {"transfer(address,uint256)", "approve(address,uint256)",
            "transferFrom(address,address,uint256)", "balanceOf(address)",
            "allowance(address,address)", "totalSupply()", "name()", "symbol()",
            "decimals()", "ownerOf(uint256)", "tokenURI(uint256)",
            "safeTransferFrom(address,address,uint256)", "getApproved(uint256)"} |->
        CASE s = "transfer(address,uint256)" -> "0xa9059cbb"
          [] s = "approve(address,uint256)" -> "0x095ea7b3"
          [] s = "transferFrom(address,address,uint256)" -> "0x23b872dd"
          [] s = "balanceOf(address)" -> "0x70a08231"
          [] s = "allowance(address,address)" -> "0xdd62ed3e"
          [] s = "totalSupply()" -> "0x18160ddd"
          [] s = "name()" -> "0x06fdde03"
          [] s = "symbol()" -> "0x95d89b41"
          [] s = "decimals()" -> "0x313ce567"
          [] s = "ownerOf(uint256)" -> "0x6352211e"
          [] s = "tokenURI(uint256)" -> "0xc87b56dd"
          [] s = "safeTransferFrom(address,address,uint256)" -> "0x42842e0e"
          [] s = "getApproved(uint256)" -> "0x081812fc"]

calculateFunctionSelector(signature) ==
    IF signature \in DOMAIN commonSelectors THEN commonSelectors[signature]
    ELSE "0x00000000"

\* the keys of FUNCTION_SELECTORS that are full signatures
FullSignatureKeys ==
    {k \in DOMAIN FUNCTION_SELECTORS : \E i \in 1..Len(k) : CharAt(k, i) = "("}

\* one signature looked up in the three tables, and the call data an action
\* builds for it with a uint256 argument, as getNFTApproval does with
\* getApproved(uint256) (args: the signature, then the answers of
\* FUNCTION_SELECTORS, getFunctionSelector and calculateFunctionSelector;
\* out: the call data)
CompareSelectors ==
    /\ NothingCalled
    /\ \E signature \in FullSignatureKeys, tokenId \in TokenIdInputs :
          calc' = Called("selectors",
                         <<signature, selectorOf(signature),
                           getFunctionSelector(signature),
                           calculateFunctionSelector(signature)>>,
                         <<tokenId>>, FALSE,
                         buildCallData(signature,
                                       <<[type |-> "uint256", value |-> tokenId]>>),
                         0)
    /\ UNCHANGED <<runs, licensingNoticeShown, noticeLog, starts>>
    /\ UNCHANGED triggerVars

(***************************************************************************)
(* getAPIHealth of utility.ts, as a function of the answers of the node.   *)
(* An answer is the hexadecimal quantity of the result, or "error" when    *)
(* jsonRpcRequest throws.                                                  *)
(***************************************************************************)
\* a < b on hexadecimal quantities without leading zeros, which is how the
\* numbers they denote compare
hexQuantityLess(a, b) ==
    LET x == strip0x(a)
        y == strip0x(b)
    IN \/ Len(x) < Len(y)
       \/ /\ Len(x) = Len(y)
          /\ \E k \in 1..Len(x) :
                /\ SubSeq(x, 1, k - 1) = SubSeq(y, 1, k - 1)
                /\ HexValueOf(CharAt(x, k)) < HexValueOf(CharAt(y, k))

\* 100 Gwei in Wei
ElevatedGasPrice == "0x174876e800"

\* the check of the RPC endpoint: eth_chainId, then eth_blockNumber
rpcCheck(chainIdResult, blockResult) ==
    IF chainIdResult = "error" \/ blockResult = "error"
    THEN [service |-> "rpc", status |-> "unhealthy"]
    ELSE [service |-> "rpc", status |-> "healthy"]

networkCheck(peerResult) ==
    IF peerResult = "error" THEN [service |-> "network", status |-> "unknown"]
    ELSE [service |-> "network",
          status |-> IF parseInt16(peerResult).value > 0 /\ ~parseInt16(peerResult).nan
                     THEN "healthy" ELSE "degraded"]

gasPriceCheck(gasPriceResult) ==
    IF gasPriceResult = "error" THEN [service |-> "gasPrice", status |-> "unknown"]
    ELSE [service |-> "gasPrice",
          status |-> IF hexQuantityLess(gasPriceResult, ElevatedGasPrice)
                     THEN "normal" ELSE "elevated"]

\* a faulty summary that counts a check of status 'unknown' as degraded, for
\* HealthSummarised to reject
overallStatusCountingUnknown(checks) ==
    IF \E k \in 1..Len(checks) : checks[k].status = "unhealthy" THEN "unhealthy"
    ELSE IF \E k \in 1..Len(checks) : checks[k].status \in {"degraded", "unknown"}
    THEN "degraded"
    ELSE "healthy"

overallStatus(checks) ==
    LET unhealthyCount ==
            Cardinality({k \in 1..Len(checks) : checks[k].status = "unhealthy"})
        degradedCount ==
            Cardinality({k \in 1..Len(checks) : checks[k].status = "degraded"})
    IN IF unhealthyCount > 0 THEN "unhealthy"
       ELSE IF degradedCount > 0 THEN "degraded"
       ELSE "healthy"

getAPIHealth(chainIdResult, blockResult, peerResult, gasPriceResult) ==
    LET checks == <<rpcCheck(chainIdResult, blockResult), networkCheck(peerResult),
                    gasPriceCheck(gasPriceResult)>>
    IN [checks |-> checks, overallStatus |-> overallStatus(checks)]

ChainIdAnswers == {"0x15b38", "error"}
BlockNumberAnswers == {"0xc", "error"}
PeerCountAnswers == {"0x0", "0x19", "error"}
GasPriceAnswers == {"0x3b9aca00", "0x174876e800", "0x2540be400000", "error"}

\* a call of getAPIHealth (args: the four answers; after a failed eth_chainId
\* no eth_blockNumber is sent)
GetAPIHealth ==
    /\ NothingCalled
    /\ \E chainIdResult \in ChainIdAnswers, blockResult \in BlockNumberAnswers,
          peerResult \in PeerCountAnswers, gasPriceResult \in GasPriceAnswers :
          /\ chainIdResult = "error" => blockResult = "error"
          /\ LET json == getAPIHealth(chainIdResult, blockResult, peerResult,
                                      gasPriceResult)
             IN calc' = [Called("getAPIHealth",
                                <<chainIdResult, blockResult, peerResult,
                                  gasPriceResult>>,
                                <<>>, FALSE, json.overallStatus, 0)
                            EXCEPT !.checks = json.checks]
    /\ UNCHANGED <<runs, licensingNoticeShown, noticeLog, starts>>
    /\ UNCHANGED triggerVars

(***************************************************************************)
(* buildCallData of utils/helpers.ts on parameters of type address and     *)
(* uint256.                                                                *)
(***************************************************************************)
\* parameters of one call: 0..MaxParams
MaxParams == 2

CallSignatures ==
    {"totalSupply()", "balanceOf(address)", "ownerOf(uint256)",
     "transfer(address,uint256)"}
AddressValues ==
    {AddrMixed, AddrNoPrefix, "0x000000000000000000000000000000000000dEaD"}
\* values of a uint256 parameter, as the decimal strings BigInt reads
Uint256Values == {"0", "1", "255", "2147483647"}

\* the k-th parameter of a call, from what was chosen for each position
ParamOf(types, addresses, values, k) ==
    IF types[k] = "address" THEN [type |-> "address", value |-> addresses[k]]
    ELSE [type |-> "uint256", value |-> bigIntOf(values[k])]

\* a call of buildCallData
BuildCallData ==
    /\ NothingCalled
    /\ \E signature \in CallSignatures, n \in 0..MaxParams :
          \E types \in [1..n -> {"address", "uint256"}],
             addresses \in [1..n -> AddressValues],
             values \in [1..n -> Uint256Values] :
             LET params == [k \in 1..n |-> ParamOf(types, addresses, values, k)]
             IN calc' = [Called("buildCallData", <<signature>>, <<>>, FALSE,
                                buildCallData(signature, params), 0)
                            EXCEPT !.params = params]
    /\ UNCHANGED <<runs, licensingNoticeShown, noticeLog, starts>>
    /\ UNCHANGED triggerVars


\* the helper functions called on their own, in any order
InitHelpers == InitNotice

NextHelpers ==
    \/ ConvertUnits
    \/ NormalizeAddress
    \/ IsValidAddress
    \/ HexToNumber
    \/ NumberToHex
    \/ CalculatePercentage
    \/ SelectorLookup
    \/ GetUserNFTs
    \/ ResolveRpcUrl
    \/ CompareSelectors
    \/ GetAPIHealth
    \/ BuildCallData

SpecHelpers == InitHelpers /\ [][NextHelpers]_vars

(***************************************************************************)
(* Polls of the block events against a node whose reported head moves      *)
(* freely: forward, or back (a reorganisation, or a node that lags behind  *)
(* the one asked before).                                                  *)
(***************************************************************************)
BlockEvents == {"newBlock", "tokenTransfer", "contractEvent"}

\* the head the node reports becomes another one: the first head of the
\* model, the one after it, or the last
HeadMoves ==
    /\ \E h \in {FirstHead, FirstHead + 1, FirstHead + MaxHead} :
          h # head /\ head' = h
    /\ UNCHANGED <<polls, triggerNoticeShown, trigger, webhookData, results>>
    /\ UNCHANGED <<calc, runs, licensingNoticeShown, noticeLog, starts>>

InitReorg ==
    /\ InitState
    /\ head = FirstHead
    /\ trigger \in {t \in TriggerConfigs :
                       /\ t.event \in BlockEvents /\ ~t.sociosApiKey
                       /\ t.tokenSymbol = "BAR" /\ t.contractAddress = AddrMixed}

NextReorg ==
    \/ Poll(1)
    \/ HeadAnswer(1)
    \/ BlockAnswer(1)
    \/ LogsAnswer(1)
    \/ HeadMoves

SpecReorg == InitReorg /\ [][NextReorg]_vars

(***************************************************************************)
(* Poll invocations of one block trigger that overlap: a second one starts *)
(* while the first awaits a request, and both use the same webhookData.    *)
(***************************************************************************)
InitOverlap == InitReorg

NextOverlap ==
    \/ \E p \in RunIds :
          \/ Poll(p)
          \/ HeadAnswer(p)
          \/ BlockAnswer(p)
          \/ LogsAnswer(p)
    \/ MineBlock

SpecOverlap == InitOverlap /\ [][NextOverlap]_vars

(***************************************************************************)
(* The users of the Socios API: one execute invocation of a poll or reward *)
(* operation, and one poll invocation of a trigger on polls or rewards,    *)
(* in any interleaving.                                                    *)
(***************************************************************************)
SociosEvents == {"newPollCreated", "pollEnded", "newRewardAvailable"}

SociosPairs == {pair \in OperationPairs : pair[1] \in {"poll", "reward"}}

StartSocios(v) == Start(v, SociosPairs, {1}, BOOLEAN)

InitSocios ==
    /\ InitState
    /\ head = FirstHead
    /\ trigger \in {t \in TriggerConfigs :
                       /\ t.event \in SociosEvents
                       /\ t.tokenSymbol = "BAR" /\ t.contractAddress = ""}

NextSocios ==
    \/ StartSocios(1)
    \/ Item(1)
    \/ Respond(1)
    \/ ReturnData(1)
    \/ results = <<>> /\ Poll(1)
    \/ SociosAnswer(1)

SpecSocios == InitSocios /\ [][NextSocios]_vars

(***************************************************************************)
(* Two executions of the same workflow on the same input items, getting    *)
(* the same answers to their requests; the privateKey credential of the    *)
(* first is PrivateKeyA and of the second PrivateKeyB.  The two advance    *)
(* together, each by the step of execute it is at.                         *)
(***************************************************************************)
\* both executions are called
StartTwice ==
    /\ runs[1].pc = "idle" /\ runs[2].pc = "idle"
    /\ \E pair \in OperationPairs, continueOnFail \in BOOLEAN,
          sociosApiKey \in BOOLEAN, n \in 0..MaxItems :
          runs' = [runs EXCEPT
                      ![1] = EnteredRun(pair, continueOnFail, PrivateKeyA,
                                        sociosApiKey, n),
                      ![2] = EnteredRun(pair, continueOnFail, PrivateKeyB,
                                        sociosApiKey, n)]
    /\ noticeLog' = IF NoticeLogged(licensingNoticeShown)
                    THEN Append(noticeLog, <<"execute", 1>>)
                    ELSE noticeLog
    /\ licensingNoticeShown' = NoticeFlagAfter(licensingNoticeShown)
    /\ starts' = [starts EXCEPT !.execute = [n |-> @.n + 2, first |-> 1]]
    /\ UNCHANGED triggerVars
    /\ UNCHANGED calc

\* both executions take their next item, with the same parameters
ItemTwice ==
    /\ runs[1].pc = "loop" /\ runs[1].i < runs[1].items
    /\ \E ps \in ItemParamsOf(runs[1]) :
          runs' = [runs EXCEPT
                      ![1] = ItemOf(runs[1], ps),
                      ![2] = IF runs[2].pc = "loop" /\ runs[2].i < runs[2].items
                             THEN ItemOf(runs[2], ps) ELSE runs[2]]
    /\ UNCHANGED <<licensingNoticeShown, noticeLog, starts>>
    /\ UNCHANGED triggerVars
    /\ UNCHANGED calc

\* both executions get the same answer to their request in flight
RespondTwice ==
    /\ runs[1].pc = "await"
    /\ \E answer \in Answers(HandlerOf(runs[1]).steps[runs[1].step]),
          size \in ListSizes(runs[1]) :
          runs' = [runs EXCEPT
                      ![1] = AnsweredRun(runs[1], answer, size),
                      ![2] = IF runs[2].pc = "await"
                             THEN AnsweredRun(runs[2], answer, size)
                             ELSE runs[2]]
    /\ UNCHANGED <<licensingNoticeShown, noticeLog, starts>>
    /\ UNCHANGED triggerVars
    /\ UNCHANGED calc

\* both executions return
ReturnTwice ==
    /\ runs[1].pc = "loop" /\ runs[1].i = runs[1].items
    /\ runs' = [runs EXCEPT
                   ![1].pc = "returned",
                   ![2].pc = IF runs[2].pc = "loop" /\ runs[2].i = runs[2].items
                             THEN "returned" ELSE @]
    /\ UNCHANGED <<licensingNoticeShown, noticeLog, starts>>
    /\ UNCHANGED triggerVars
    /\ UNCHANGED calc

NextKeys ==
    \/ StartTwice
    \/ ItemTwice
    \/ RespondTwice
    \/ ReturnTwice

SpecKeys == Init /\ [][NextKeys]_vars

(***************************************************************************)
(* Properties.                                                             *)
(***************************************************************************)
\* the items a run has finished, and those among them that met a condition
DoneOf(v) == {runs[v].done[k] : k \in 1..Len(runs[v].done)}

\* the elements of returnData an item produced, in order
OutputsFrom(v, i) == SelectSeq(runs[v].returnData, LAMBDA o : o.from = i)

\* what the polls finished so far returned
ResultsOf == {results[k] : k \in 1..Len(results)}

\* C1: for every event of the trigger, a poll that finds no stored cursor
\* emits nothing, and a poll that finds one emits only items strictly newer
\* than it (a greater id, a greater block number).
FirstPollOnlyBaseline ==
    \A r \in ResultsOf :
        /\ ~r.hadCursor => r.count = 0
        /\ r.hadCursor =>
              /\ \A k \in 1..Len(r.ids) : stringGreater(r.ids[k], r.lastId)
              /\ \A k \in 1..Len(r.blocks) : r.blocks[k] > r.lastBlockNumber.value

\* C2: every (resource, operation) pair the node description offers is
\* dispatched by execute to an action function: for a run configured with an
\* offered pair, no item ends in an 'Unknown ... operation' error.
SchemaOperationsDispatched ==
    \A v \in RunIds :
        runs[v].operation \in OperationOptions(runs[v].resource) =>
            \A d \in DoneOf(v) : ~startsWith(d.message, "Unknown ")

\* C3: an item with a malformed address or transaction-hash parameter is
\* rejected with an error before any request is sent for it: no request is in
\* flight for such an item, and a finished one has sent nothing and ended in
\* an error.
MalformedRejectedBeforeRequest ==
    \A v \in RunIds :
        /\ runs[v].pc = "await" => ~ItemMalformed(runs[v])
        /\ \A d \in DoneOf(v) :
              d.malformed => d.sent = 0 /\ d.outcome \in {"error", "threw"}

ContinueOnFailSemantics ==
    \A v \in RunIds :
        LET e == runs[v]
        IN /\ e.continueOnFail =>
                /\ e.pc # "threw"
                /\ \A d \in DoneOf(v) :
                      /\ d.outcome # "threw"
                      /\ d.outcome = "error" =>
                           OutputsFrom(v, d.item) = <<ErrorItem(d.message, d.item)>>
                /\ e.pc = "returned" => Len(e.done) = e.items
           /\ ~e.continueOnFail =>
                /\ \A k \in 1..Len(e.returnData) : e.returnData[k].kind # "error"
                /\ \A k \in 1..Len(e.done) :
                      /\ e.done[k].outcome # "error"
                      /\ e.done[k].outcome = "threw" =>
                           /\ k = Len(e.done)
                           /\ e.pc = "threw"
                           /\ e.thrown = e.done[k].message
                           /\ e.i = e.done[k].item
           /\ e.pc = "threw" =>
                /\ Len(e.done) > 0
                /\ e.done[Len(e.done)].outcome = "threw"

\* C5 witness: a run of two items under continue-on-fail returned; its first
\* item failed and its second succeeded.
FailedItemThenNextProcessed ==
    \E v \in RunIds :
        /\ runs[v].continueOnFail
        /\ runs[v].pc = "returned"
        /\ Len(runs[v].done) = 2
        /\ runs[v].done[1].outcome = "error"
        /\ runs[v].done[2].outcome = "returned"

SigningOperation(e) ==
    <<e.resource, e.operation>> \in
        {<<"transaction", "sendTransaction">>, <<"transaction", "transferToken">>,
         <<"smartContract", "writeContract">>, <<"nft", "transferNFT">>}

\* C6: no request with method eth_sendTransaction or eth_sendRawTransaction
\* is ever sent, and a run of sendTransaction, transferToken, writeContract
\* or transferNFT sends no request at all; an item of such a run that does
\* not fail yields exactly one placeholder item.
NoTransactionBroadcast ==
    \A v \in RunIds :
        LET e == runs[v]
        IN /\ e.request.method \notin {"eth_sendTransaction", "eth_sendRawTransaction"}
           /\ SigningOperation(e) =>
                /\ e.pc # "await"
                /\ e.sent = 0
                /\ e.request = NoRequest
                /\ \A d \in DoneOf(v) :
                      /\ d.sent = 0
                      /\ d.outcome = "returned" =>
                           OutputsFrom(v, d.item) = <<OutputItem("placeholder", d.item)>>

\* C6 witness: a run of one of the four operations returned after an item
\* that did not fail.
SigningOperationReturned ==
    \E v \in RunIds :
        /\ SigningOperation(runs[v])
        /\ runs[v].pc = "returned"
        /\ \E d \in DoneOf(v) : d.outcome = "returned"

\* C7: the newBlock trigger fires on every new block: when every poll so far
\* was answered without an error, every block after the first head a poll
\* observed and up to the latest head a poll observed has been emitted.
NewBlockEmitsEveryBlock ==
    (/\ trigger.event = "newBlock"
     /\ results # <<>>
     /\ \A r \in ResultsOf : r.ok /\ r.sawHead)
    => LET emitted == UNION {{r.blocks[k] : k \in 1..Len(r.blocks)} : r \in ResultsOf}
       IN \A b \in (results[1].currentBlock + 1)..(results[Len(results)].currentBlock) :
             b \in emitted

\* C8: when readContract is given the function as a bare name (balanceOf) or
\* as a raw selector (0x70a08231), the data of the eth_call it sends begins
\* with the selector of that function, 0x70a08231.
ReadContractSendsSelector ==
    \A v \in RunIds :
        LET e == runs[v]
        IN (/\ e.resource = "smartContract"
            /\ e.operation = "readContract"
            /\ e.pc = "await"
            /\ ParamValue(e, "functionName") \in {"balanceOf", "0x70a08231"})
           => startsWith(e.request.data, "0x70a08231")

\* C9: within one run the items are processed one at a time in input order,
\* at most one request is in flight (and one is exactly while the run
\* awaits), and returnData holds the outputs in the order of the items.
SequentialItems ==
    \A v \in RunIds :
        LET e == runs[v]
        IN /\ e.inFlight <= 1
           /\ e.inFlight = 1 <=> e.pc = "await"
           /\ \A k \in 1..Len(e.done) : e.done[k].item = k - 1
           /\ e.pc \in {"loop", "await", "returned"} => e.i = Len(e.done)
           /\ \A j, k \in 1..Len(e.returnData) :
                 j < k => e.returnData[j].from <= e.returnData[k].from
           /\ \A k \in 1..Len(e.returnData) : e.returnData[k].from < e.i

\* C9 witness: a run of two items returned; each item sent a request and
\* produced output.
TwoItemsEachRequested ==
    \E v \in RunIds :
        /\ runs[v].pc = "returned"
        /\ Len(runs[v].done) = 2
        /\ runs[v].done[1].sent > 0
        /\ runs[v].done[2].sent > 0
        /\ OutputsFrom(v, 0) # <<>>
        /\ OutputsFrom(v, 1) # <<>>

\* the notices of one node, in the order they were logged
NoticesOf(kind) == SelectSeq(noticeLog, LAMBDA s : s[1] = kind)

\* C10: whatever the number and the interleaving of the invocations of
\* execute, its licensing notice is logged exactly once as soon as one has
\* started, by the first to start, and the flag is set from then on; the same
\* for poll with the flag of its module.
NoticeOnceByFirstStart ==
    /\ \A kind \in {"execute", "poll"} :
          NoticesOf(kind) = IF starts[kind].n = 0 THEN <<>>
                            ELSE <<(<<kind, starts[kind].first>>)>>
    /\ licensingNoticeShown <=> starts.execute.n > 0
    /\ triggerNoticeShown <=> starts.poll.n > 0

\* C10 witness: two invocations of execute and two of poll are in progress at
\* once, each awaiting its request, and two notices have been logged.
OverlappingStartsOneNotice ==
    /\ \A v \in 1..2 : runs[v].pc = "await" /\ polls[v].pc = "awaitHead"
    /\ starts.execute.n >= 2
    /\ starts.poll.n >= 2
    /\ Len(noticeLog) = 2

\* a decimal amount: an optional minus sign, digits, and optionally a point
\* followed by digits
IsDecimalAmount(s) ==
    LET body == IF Len(s) > 0 /\ CharAt(s, 1) = "-" THEN sliceFrom(s, 1) ELSE s
        parts == splitDot(body)
    IN /\ Len(parts) \in {1, 2}
       /\ \A k \in 1..Len(parts) :
             /\ Len(parts[k]) > 0
             /\ \A j \in 1..Len(parts[k]) : CharAt(parts[k], j) \in DecDigits

\* the value of a decimal amount, in units of 10^-MaxFraction
DecimalValue(s) ==
    LET negative == CharAt(s, 1) = "-"
        parts == splitDot(IF negative THEN sliceFrom(s, 1) ELSE s)
        fraction == IF Len(parts) = 2 THEN parts[2] ELSE ""
        magnitude == digitsValue(parts[1]) * Pow10(MaxFraction)
                     + digitsValue(padEnd(fraction, MaxFraction, "0"))
    IN IF negative THEN 0 - magnitude ELSE magnitude

\* C11: for every decimal amount convertUnits accepts, converting it from CHZ
\* to Wei and the result back from Wei to CHZ with the same decimals gives an
\* amount of the same value (trailing zeros of the fraction apart).
ConvertUnitsRoundTrip ==
    (/\ calc.fn = "convertUnits"
     /\ calc.args[2] = "chz" /\ calc.args[3] = "wei"
     /\ IsDecimalAmount(calc.args[1])
     /\ ~calc.threw)
    => /\ ~convertUnitsThrows(calc.out, "wei", calc.nums[1])
       /\ LET back == convertUnits(calc.out, "wei", "chz", calc.nums[1])
          IN IsDecimalAmount(back) /\ DecimalValue(back) = DecimalValue(calc.args[1])


\* the forty characters of a string are hexadecimal digits of either case
FortyHexDigits(s) ==
    /\ Len(s) = 40
    /\ \A k \in 1..40 : \E j \in 1..22 : CharAt(s, k) = CharAt("0123456789abcdefABCDEF", j)

\* C12: normalizeAddress returns exactly when its input is forty hexadecimal
\* digits with or without the prefix 0x, and throws otherwise; what it
\* returns is 0x followed by forty lowercase hexadecimal digits, and
\* normalizing it again succeeds and gives the same string.
NormalizeAddressIdempotent ==
    calc.fn = "normalizeAddress" =>
        LET a == calc.args[1]
            wellFormed == \/ FortyHexDigits(a)
                          \/ startsWith(a, "0x") /\ FortyHexDigits(sliceFrom(a, 2))
        IN /\ calc.threw <=> ~wellFormed
           /\ ~calc.threw =>
                /\ Len(calc.out) = 42
                /\ SubSeq(calc.out, 1, 2) = "0x"
                /\ \A k \in 3..42 : \E j \in 1..16 :
                      CharAt(calc.out, k) = CharAt("0123456789abcdef", j)
                /\ ~normalizeAddressThrows(calc.out)
                /\ normalizeAddress(calc.out) = calc.out

\* C12 witness: an address in upper case without prefix was normalized.
UpperCaseAddressNormalized ==
    /\ calc.fn = "normalizeAddress"
    /\ calc.args[1] = "742D35CC6634C0532925A3B844BC454E4438F44E"
    /\ calc.out = "0x742d35cc6634c0532925a3b844bc454e4438f44e"

\* C13: isValidAddress answers true exactly for the strings of 42 characters
\* made of 0x and forty hexadecimal digits of either case, and the copy in
\* the transport module gives the same answer.
IsValidAddressExact ==
    calc.fn = "isValidAddress" =>
        LET a == calc.args[1]
        IN /\ calc.out = "true" <=>
                (/\ Len(a) = 42
                 /\ SubSeq(a, 1, 2) = "0x"
                 /\ FortyHexDigits(SubSeq(a, 3, Len(a))))
           /\ calc.out \in {"true", "false"}
           /\ calc.args[2] = calc.out

\* C13 witness: isValidAddress accepted an address in mixed case.
MixedCaseAddressAccepted ==
    /\ calc.fn = "isValidAddress"
    /\ calc.args[1] = AddrMixed
    /\ calc.out = "true"

\* a hexadecimal numeral: digits of either case, with or without the prefix
\* 0x, and the number it denotes
HexNumeralDigits(h) == IF startsWith(h, "0x") THEN sliceFrom(h, 2) ELSE h

IsHexNumeral(h) ==
    LET digits == HexNumeralDigits(h)
    IN /\ Len(digits) > 0
       /\ \A k \in 1..Len(digits) :
             \E j \in 1..22 : CharAt(digits, k) = CharAt("0123456789abcdefABCDEF", j)

RECURSIVE HexNumeralValue(_)
HexNumeralValue(digits) ==
    IF Len(digits) = 0 THEN 0
    ELSE LET c == CharAt(digits, Len(digits))
             lower == CHOOSE j \in 1..22 : CharAt("0123456789abcdefABCDEF", j) = c
             d == IF lower > 16 THEN lower - 7 ELSE lower - 1
         IN 16 * HexNumeralValue(SubSeq(digits, 1, Len(digits) - 1)) + d

\* C14: for every hexadecimal numeral h, with or without prefix and leading
\* zeros, hexToNumber gives the number h denotes, and numberToHex of it is 0x
\* followed by lowercase digits without leading zeros that denote the same
\* number; hexToNumber of '0x' and of the empty string is 0.
HexRoundTrip ==
    calc.fn = "hexToNumber" =>
        LET h == calc.args[1]
            back == numberToHex(calc.num)
        IN /\ h \in {"", "0x"} => ~calc.threw /\ calc.num = 0
           /\ IsHexNumeral(h) =>
                /\ ~calc.threw
                /\ calc.num = HexNumeralValue(HexNumeralDigits(h))
                /\ startsWith(back, "0x")
                /\ IsHexNumeral(back)
                /\ HexNumeralValue(sliceFrom(back, 2)) = calc.num
                /\ Len(back) > 3 => CharAt(back, 3) # "0"
                /\ toLowerCase(back) = back

\* C14 witness: a numeral in upper case with leading zeros was converted.
PaddedNumeralConverted ==
    /\ calc.fn = "hexToNumber"
    /\ calc.args[1] = "0x00ff"
    /\ calc.num = 255
    /\ numberToHex(calc.num) = "0xff"

\* the greatest integer not above a / b, b # 0
FloorOf(a, b) == IF b > 0 THEN a \div b ELSE (0 - a) \div (0 - b)

\* C15 (as stated): calculatePercentage never throws and returns 0 when
\* total is 0; otherwise it returns floor(part * 10000 / total) / 100, which
\* is exactly 100 * part / total when total divides 100 * part.
PercentageFloored ==
    calc.fn = "calculatePercentage" =>
        LET part == calc.nums[1]
            total == calc.nums[2]
        IN /\ ~calc.threw
           /\ total = 0 => calc.num = 0
           /\ total # 0 =>
                /\ calc.num = FloorOf(part * 10000, total)
                /\ FloorOf(part * 100, total) * total = part * 100 =>
                      calc.num = 100 * FloorOf(part * 100, total)

\* C15 (amended): calculatePercentage never throws and returns 0 when total
\* is 0; otherwise it returns part * 10000 / total truncated towards zero,
\* divided by 100: that is the floor when the quotient is not negative and
\* the ceiling when it is, and exactly 100 * part / total when total divides
\* 100 * part.
PercentageTruncated ==
    calc.fn = "calculatePercentage" =>
        LET part == calc.nums[1]
            total == calc.nums[2]
            floor == FloorOf(part * 10000, total)
            exact == floor * total = part * 10000
            negative == (part < 0) # (total < 0)
        IN /\ ~calc.threw
           /\ total = 0 => calc.num = 0
           /\ total # 0 =>
                /\ calc.num = IF negative /\ ~exact THEN floor + 1 ELSE floor
                /\ FloorOf(part * 100, total) * total = part * 100 =>
                      calc.num = 100 * FloorOf(part * 100, total)

\* C15 witness: a percentage that is no whole number of hundredths was
\* computed (1 of 3: 33.33).
ThirdComputed ==
    /\ calc.fn = "calculatePercentage"
    /\ calc.nums = <<1, 3>>
    /\ calc.num = 3333

\* the selectors the ERC-20 and ERC-721 standards fix for the named functions
\* (the first four bytes of the Keccak-256 hash of the full signature)
DocumentedSelector(signature) ==
    CASE signature = "name()" -> "0x06fdde03"
      [] signature = "symbol()" -> "0x95d89b41"
      [] signature = "decimals()" -> "0x313ce567"
      [] signature = "totalSupply()" -> "0x18160ddd"
      [] signature = "balanceOf(address)" -> "0x70a08231"
      [] signature = "transfer(address,uint256)" -> "0xa9059cbb"
      [] signature = "approve(address,uint256)" -> "0x095ea7b3"
      [] signature = "allowance(address,address)" -> "0xdd62ed3e"
      [] signature = "transferFrom(address,address,uint256)" -> "0x23b872dd"
      [] signature = "ownerOf(uint256)" -> "0x6352211e"
      [] signature = "tokenURI(uint256)" -> "0xc87b56dd"
      [] signature = "safeTransferFrom(address,address,uint256)" -> "0x42842e0e"
      [] signature = "getApproved(uint256)" -> "0x081812fc"

NamedSignatures ==
    {"name()", "symbol()", "decimals()", "totalSupply()", "balanceOf(address)",
     "transfer(address,uint256)", "approve(address,uint256)",
     "allowance(address,address)", "transferFrom(address,address,uint256)",
     "ownerOf(uint256)", "tokenURI(uint256)",
     "safeTransferFrom(address,address,uint256)", "getApproved(uint256)"}

\* the name of a function: its signature up to the parenthesis
ShorthandOf(signature) ==
    SubSeq(signature, 1,
           (CHOOSE k \in 1..Len(signature) :
               /\ CharAt(signature, k) = "("
               /\ \A j \in 1..(k - 1) : CharAt(signature, j) # "(") - 1)

\* C16: a lookup of a named full signature in FUNCTION_SELECTORS gives the
\* selector the standard fixes for it, four bytes in hexadecimal, and a
\* lookup of its shorthand key gives the same selector.
SelectorsDocumented ==
    calc.fn = "FUNCTION_SELECTORS" =>
        \A signature \in NamedSignatures :
            calc.args[1] \in {signature, ShorthandOf(signature)} =>
                /\ calc.out = DocumentedSelector(signature)
                /\ MatchesHex(calc.out, 8)
                /\ calc.out = selectorOf(signature)

\* C16 witness: the shorthand key getApproved was looked up.
ShorthandLookedUp ==
    /\ calc.fn = "FUNCTION_SELECTORS"
    /\ calc.args[1] = "getApproved"
    /\ calc.out = "0x081812fc"

(***************************************************************************)
(* C17: a tokenTransfer or contractEvent poll moves lastBlockNumber past a *)
(* range of blocks only if every log it fetched for the range is among the *)
(* items it returns, and a poll that returns from its catch block leaves   *)
(* lastBlockNumber as it found it.                                         *)
(***************************************************************************)
FetchedLogsNeverLost ==
    \A k \in 1..Len(results) :
        LET r == results[k]
        IN r.event \in {"tokenTransfer", "contractEvent"} =>
              /\ r.lastBlockNumberAfter # r.lastBlockNumber => r.blocks = r.fetched
              /\ r.caught => r.lastBlockNumberAfter = r.lastBlockNumber

(***************************************************************************)
(* C18: once a cursor is stored, whatever its value (0 included), every    *)
(* later tokenTransfer or contractEvent poll whose requests succeed asks   *)
(* for exactly the blocks lastBlockNumber + 1 .. head and then stores the  *)
(* head; a poll that finds head <= lastBlockNumber asks for nothing and    *)
(* changes nothing. Consecutive ranges are then disjoint and leave no gap. *)
(***************************************************************************)
CursorRangesExact ==
    \A k \in 1..Len(results) :
        LET r == results[k]
            stored == r.lastBlockNumber
        IN /\ r.event \in {"tokenTransfer", "contractEvent"}
           /\ stored.defined
           /\ r.sawHead
           /\ r.ok
           => IF r.currentBlock <= stored.value
              THEN ~r.queried /\ r.lastBlockNumberAfter = stored
              ELSE /\ r.queried
                   /\ r.fromBlock = stored.value + 1
                   /\ r.lastBlockNumberAfter = Block(r.currentBlock)

(***************************************************************************)
(* C19: getUserNFTs reports a token in nfts if and only if the newest of   *)
(* the fetched transfers of that token is a transfer to the user, so a     *)
(* token received and later sent away is not reported; and nftCount is the *)
(* number of tokens reported.                                              *)
(***************************************************************************)
NewestIsReceipt(transfers, token) ==
    \E k \in 1..Len(transfers) :
        /\ <<transfers[k].contractAddress, transfers[k].tokenID>> = token
        /\ \A j \in 1..(k - 1) :
              <<transfers[j].contractAddress, transfers[j].tokenID>> # token
        /\ toLowerCase(transfers[k].to) = toLowerCase(UserAddress)

Reported(nfts, token) ==
    \E j \in 1..Len(nfts) : <<nfts[j].contractAddress, nfts[j].tokenId>> = token

UserNFTsAreCurrentHoldings ==
    calc.fn = "getUserNFTs" =>
        /\ \A token \in NftTokens :
              Reported(calc.nfts, token) <=> NewestIsReceipt(calc.transfers, token)
        /\ calc.nums # <<>> => calc.nums = <<Len(calc.nfts)>>

(***************************************************************************)
(* C20: over non-overlapping newPollCreated, pollEnded or                  *)
(* newRewardAvailable polls, no id is emitted by two invocations; after an *)
(* invocation that emits, the stored cursor is the greatest id emitted so  *)
(* far in the order the filter compares by (stringGreater); an invocation  *)
(* that emits nothing leaves the cursor as it found it.                    *)
(***************************************************************************)
IdEvents == {"newPollCreated", "pollEnded", "newRewardAvailable"}

EmittedUpTo(k) == {results[j].ids[m] : <<j, m>> \in
                      {jm \in (1..k) \X (1..(MaxList + 1)) :
                          jm[2] <= Len(results[jm[1]].ids)}}

IdCursorNeverRepeats ==
    \A k \in 1..Len(results) :
        LET r == results[k]
        IN r.event \in IdEvents =>
              /\ \A m \in 1..Len(r.ids) : r.ids[m] \notin EmittedUpTo(k - 1)
              /\ r.count > 0 =>
                    /\ r.lastIdAfter \in EmittedUpTo(k)
                    /\ \A id \in EmittedUpTo(k) :
                          id = r.lastIdAfter \/ stringGreater(r.lastIdAfter, id)
              /\ r.count = 0 => r.lastIdAfter = r.lastId

\* two invocations emitted ids, the later one with a cursor stored
TwoPollsEmittedIds ==
    \E j, k \in 1..Len(results) :
        /\ j < k
        /\ results[j].event \in IdEvents /\ results[j].count > 0
        /\ results[k].hadCursor /\ results[k].count > 0

(***************************************************************************)
(* C21: over non-overlapping newBlock, tokenTransfer and contractEvent     *)
(* polls, a stored lastBlockNumber is never replaced by a lower one (nor   *)
(* removed), whatever head the node reports, a head below the cursor       *)
(* included.                                                               *)
(***************************************************************************)
CursorNeverDecreases ==
    [][webhookData.lastBlockNumber.defined =>
          /\ webhookData'.lastBlockNumber.defined
          /\ webhookData'.lastBlockNumber.value >= webhookData.lastBlockNumber.value]_vars

\* a poll was told a head below the cursor it had read, and returned
HeadBelowCursorPolled ==
    \E k \in 1..Len(results) :
        /\ results[k].event \in BlockEvents
        /\ results[k].lastBlockNumber.defined
        /\ results[k].sawHead
        /\ results[k].currentBlock < results[k].lastBlockNumber.value

(***************************************************************************)
(* C22: when poll invocations of one tokenTransfer, contractEvent or       *)
(* newBlock trigger interleave at their awaited requests, no block is in   *)
(* the emitted items of two invocations, and once they have all returned   *)
(* without an error lastBlockNumber is the greatest head any of them saw.  *)
(***************************************************************************)
BlocksOf(r) == {r.blocks[m] : m \in 1..Len(r.blocks)}

OverlappingPollsDisjoint ==
    /\ \A j, k \in 1..Len(results) :
          j < k => BlocksOf(results[j]) \cap BlocksOf(results[k]) = {}
    /\ /\ \A p \in RunIds : polls[p].pc = "idle"
       /\ Len(results) >= 2
       /\ \A k \in 1..Len(results) : results[k].ok /\ results[k].sawHead
       => /\ webhookData.lastBlockNumber.defined
          /\ \A k \in 1..Len(results) :
                webhookData.lastBlockNumber.value >= results[k].currentBlock

(***************************************************************************)
(* C23: under every credential (network mainnet, spicy or custom, with or  *)
(* without an rpcEndpoint) the trigger posts its JSON-RPC requests to the  *)
(* URL the actions' getRpcUrl resolves.                                    *)
(***************************************************************************)
TriggerAndActionsSameRpcUrl ==
    calc.fn = "rpcUrl" => calc.out = calc.args[3]

(***************************************************************************)
(* C24: for every full signature key of FUNCTION_SELECTORS,                *)
(* getFunctionSelector and calculateFunctionSelector give the selector     *)
(* FUNCTION_SELECTORS gives, so the call data built for the signature      *)
(* starts with that selector and never with 0x00000000.                    *)
(***************************************************************************)
SelectorLookupsAgree ==
    calc.fn = "selectors" =>
        /\ calc.args[3] = calc.args[2]
        /\ calc.args[4] = calc.args[2]
        /\ startsWith(calc.out, calc.args[2])
        /\ ~startsWith(calc.out, "0x00000000")

(***************************************************************************)
(* C25: ChilizTrigger.poll never throws: whatever the event and whichever  *)
(* request or parsing step fails, the invocation returns null from a catch *)
(* block; an event that is none of the eight also returns null.            *)
(***************************************************************************)
PollNeverThrows ==
    \A k \in 1..Len(results) :
        LET r == results[k]
        IN /\ ~r.thrown
           /\ ~r.ok \/ r.caught \/ r.event \notin TriggerEvents => r.count = 0

\* polls returned from the catch block after a failed request and after logs
\* that could not be parsed
PollsCaughtFailures ==
    \E j, k \in 1..Len(results) :
        /\ results[j].caught /\ ~results[j].queried
        /\ results[k].caught /\ results[k].fetched # <<>>

(***************************************************************************)
(* C26: every request to the Socios API, of an action or of the trigger,   *)
(* carries the Authorization header and is sent under a credential that    *)
(* has a sociosApiKey; without the key no request to that API is sent: the *)
(* action's item ends before any request and the trigger emits nothing.    *)
(***************************************************************************)
SociosRequestsAuthorized ==
    /\ \A v \in RunIds :
          /\ runs[v].pc = "await" /\ runs[v].request.via = "socios" =>
                runs[v].request.auth /\ runs[v].credentials.sociosApiKey
          /\ /\ runs[v].resource \in {"poll", "reward"}
             /\ ~runs[v].credentials.sociosApiKey
             => runs[v].sent = 0 /\ runs[v].pc # "await"
    /\ \A p \in RunIds : polls[p].pc = "awaitSocios" => trigger.sociosApiKey
    /\ \A k \in 1..Len(results) :
          results[k].event \in SociosEvents /\ ~trigger.sociosApiKey =>
              results[k].count = 0

\* an action and the trigger both await the Socios API
SociosRequestsInFlight ==
    /\ runs[1].pc = "await" /\ runs[1].request.via = "socios"
    /\ polls[1].pc = "awaitSocios"

(***************************************************************************)
(* C27: a priceChangeAlert poll that finds no stored price stores the      *)
(* current one and emits nothing; a later poll emits exactly one alert if  *)
(* |current - lastPrice| / lastPrice * 100 >= threshold and nothing        *)
(* otherwise; every poll replaces lastPrice by the current price, so the   *)
(* change is measured against the previous poll.                           *)
(***************************************************************************)
PriceChangeReaches(current, last, threshold) ==
    (IF current >= last THEN current - last ELSE last - current) * 100
        >= threshold * last

PriceAlertAgainstPreviousPoll ==
    \A k \in 1..Len(results) :
        LET r == results[k]
        IN r.event = "priceChangeAlert" =>
              /\ r.lastPriceAfter = Block(r.mockPrice)
              /\ r.lastPrice = IF k = 1 THEN NoBlock
                               ELSE Block(results[k - 1].mockPrice)
              /\ r.count = IF /\ r.lastPrice.defined
                              /\ PriceChangeReaches(r.mockPrice, r.lastPrice.value,
                                                    trigger.priceThreshold)
                           THEN 1 ELSE 0

\* a poll found a change of exactly the threshold and a later one a smaller
\* change
ThresholdChangeThenSmaller ==
    \E j, k \in 1..Len(results) :
        /\ j < k
        /\ results[j].event = "priceChangeAlert"
        /\ results[j].lastPrice.defined
        /\ (results[j].mockPrice - results[j].lastPrice.value) * 100
              = trigger.priceThreshold * results[j].lastPrice.value
        /\ results[j].count = 1
        /\ results[k].mockPrice # results[k].lastPrice.value
        /\ results[k].count = 0

(***************************************************************************)
(* C28: getAPIHealth does not throw when requests fail and returns three   *)
(* checks, of rpc, network and gasPrice in this order; overallStatus is    *)
(* 'unhealthy' iff the rpc check failed, else 'degraded' iff the peer      *)
(* count was obtained and is 0, else 'healthy'; a failed peer-count or     *)
(* gas-price check has status 'unknown' and does not lower the summary.    *)
(***************************************************************************)
HealthSummarised ==
    calc.fn = "getAPIHealth" =>
        LET rpcFailed == calc.args[1] = "error" \/ calc.args[2] = "error"
            noPeers == calc.args[3] = "0x0"
        IN /\ ~calc.threw
           /\ Len(calc.checks) = 3
           /\ <<calc.checks[1].service, calc.checks[2].service,
                calc.checks[3].service>> = <<"rpc", "network", "gasPrice">>
           /\ calc.out = IF rpcFailed THEN "unhealthy"
                         ELSE IF noPeers THEN "degraded" ELSE "healthy"
           /\ calc.args[3] = "error" => calc.checks[2].status = "unknown"
           /\ calc.args[4] = "error" => calc.checks[3].status = "unknown"

\* the peer count and the gas price could not be read and the summary is
\* 'healthy'
HealthyDespiteUnknownChecks ==
    /\ calc.fn = "getAPIHealth"
    /\ calc.args[3] = "error" /\ calc.args[4] = "error"
    /\ calc.out = "healthy"

(***************************************************************************)
(* C29: for parameters of type address (40 hexadecimal digits) or uint256, *)
(* buildCallData returns the selector and then, in the order of the        *)
(* parameters, one word of 64 hexadecimal digits each, padded with zeros   *)
(* on the left: 10 + 64 * n characters, and each word decodes to the value *)
(* of its parameter.                                                       *)
(***************************************************************************)
WordOf(data, k) == SubSeq(data, 11 + 64 * (k - 1), 10 + 64 * k)

WordDecodes(word, param) ==
    /\ \A i \in 1..Len(word) : CharAt(word, i) \in HexChars
    /\ IF param.type = "address"
       THEN /\ \A i \in 1..24 : CharAt(word, i) = "0"
            /\ toLowerCase(SubSeq(word, 25, 64)) = toLowerCase(strip0x(param.value))
       ELSE hexRunValue(word) = param.value

CallDataWords ==
    calc.fn = "buildCallData" =>
        /\ Len(calc.out) = 10 + 64 * Len(calc.params)
        /\ SubSeq(calc.out, 1, 10) = getFunctionSelector(calc.args[1])
        /\ \A k \in 1..Len(calc.params) :
              WordDecodes(WordOf(calc.out, k), calc.params[k])

\* call data of an address and then a number
AddressThenNumberEncoded ==
    /\ calc.fn = "buildCallData"
    /\ Len(calc.params) = 2
    /\ calc.params[1].type = "address" /\ calc.params[2].type = "uint256"
    /\ calc.params[2].value = 255
    /\ Len(calc.out) = 138

(***************************************************************************)
(* C30: two executions that differ only in the value of a non-empty        *)
(* privateKey credential send the same requests and return the same items: *)
(* at every point the two runs (the request in flight, the items returned, *)
(* the errors caught and thrown, the position in the loop) are equal but   *)
(* for the key itself.                                                     *)
(***************************************************************************)
WithoutPrivateKey(e) == [e EXCEPT !.credentials.privateKey = ""]

RunsBlindToPrivateKey ==
    (runs[1].credentials.privateKey # "" /\ runs[2].credentials.privateKey # "")
        => WithoutPrivateKey(runs[1]) = WithoutPrivateKey(runs[2])

\* two token transfers under different keys have returned their items
TransfersReturnedUnderTwoKeys ==
    /\ runs[1].pc = "returned" /\ runs[2].pc = "returned"
    /\ runs[1].credentials.privateKey = PrivateKeyA
    /\ runs[2].credentials.privateKey = PrivateKeyB
    /\ runs[1].operation = "transferToken"
    /\ Len(runs[1].returnData) > 0
    /\ runs[1].thrown = ""

=============================================================================
